---------------------------- MODULE Spec2Model ----------------------------
(***************************************************************************)
(* Model of the callback bridge of yast-pkg-bindings: the receivers of     *)
(* src/src/Callbacks.cc (progress throttle, media change with the redirect *)
(* map, source change notification) and of PkgCommit (src/unnamed/part_001)*)
(***************************************************************************)
EXTENDS Integers, Sequences, FiniteSets, TLC

(***************************************************************************)
(* Program constants                                                       *)
(***************************************************************************)

\* static const time_t callback_timeout = 3;
callback_timeout == 3

\* "value - last_reported >= 5 || last_reported - value >= 5"
MinProgressStep == 5

\* "value == 100"
FullPercent == 100

\* PkgCommit: last_reported_repo = -1;
NoRepo == -1

\* PkgCommit: last_reported_mediumnr = 1;
FirstMedium == 1

(***************************************************************************)
(* Bounds of the model                                                     *)
(***************************************************************************)

\* the clock time(NULL) runs over 0..MaxClock
MaxClock == 4

\* number of package starts recorded in one commit run
MaxStarts == 3

(***************************************************************************)
(* Values                                                                  *)
(***************************************************************************)

\* a callback that was never registered (CB::_set is false)
Unset == "unset"

\* the empty smart pointer zypp::Resolvable::constPtr()
NullRes == [ name |-> "", kind |-> "null", repo |-> -1, medianr |-> 0 ]

\* a map without entries
EmptyMap == [ x \in {} |-> x ]

\* the engine is not installing anything
NoAttempt == [ phase |-> "none" ]

\* the resolvables of the pool, by name, and the kind of each
PoolItems == { "a", "p", "s", "t", "u", "v", "w" }

KindOf ==
    [ a |-> "package", p |-> "pattern", s |-> "selection",
      t |-> "patch", u |-> "patch", v |-> "patch", w |-> "patch" ]

\* zypp::ResStatus of an item nobody has touched
Neutral == [ transact |-> "KEEP_STATE", by |-> "SOLVER" ]

\* the members of PkgFunctions after construction: no error, no base
\* product, no state saved (the status saved in each item is the one it
\* was constructed with); base_link is the file the base link points to
NoSession ==
    [ _last_error |-> "", base_product |-> "none", base_link |-> "absent",
      state_saved |-> FALSE, saved |-> [ i \in PoolItems |-> Neutral ] ]

\* m[k] = v, the key inserted when it is missing
Assign(m, k, v) == [ x \in DOMAIN m \cup { k } |-> IF x = k THEN v ELSE m[x] ]

\* the six receivers' progress members that apply the throttle
ThrottledStreams ==
    { "InstallPkg", "DownloadResolvable", "DownloadProgress",
      "DeltaDownload", "DeltaApply", "PatchDownload" }

\* the receivers whose progress() has no throttle state
PlainStreams ==
    { "RemovePkg", "SourceCreate", "ProbeSource", "RepoReport",
      "RebuildDb", "ConvertDb" }

Streams == ThrottledStreams \cup PlainStreams

\* the YCPCallbacks::CB_ id each progress member looks up
ProgressKind(s) ==
    CASE s = "InstallPkg"         -> "ProgressPackage"
      [] s = "DownloadResolvable" -> "ProgressProvide"
      [] s = "DownloadProgress"   -> "ProgressDownload"
      [] s = "DeltaDownload"      -> "ProgressDeltaDownload"
      [] s = "DeltaApply"         -> "ProgressDeltaApply"
      [] s = "PatchDownload"      -> "ProgressPatchDownload"
      [] s = "RemovePkg"          -> "ProgressPackage"
      [] s = "SourceCreate"       -> "SourceCreateProgress"
      [] s = "ProbeSource"        -> "SourceProbeProgress"
      [] s = "RepoReport"         -> "SourceReportProgress"
      [] s = "RebuildDb"          -> "ProgressRebuildDb"
      [] s = "ConvertDb"          -> "ProgressConvertDb"

ProgressKinds == { ProgressKind(s) : s \in Streams }

StartKinds ==
    { "SourceChange", "StartPackage", "StartProvide", "StartDownload",
      "StartDeltaDownload", "StartDeltaApply", "StartPatchDownload" }

ProbeKinds == { "SourceProbeStart", "SourceProbeEnd" }

\* the kinds the problem members evaluate (the Done kinds of the packages
\* serve their problem and their finish members alike)
ProblemKinds ==
    { "DonePackage", "DoneProvide", "ScriptProblem", "SourceCreateError",
      "SourceProbeError", "SourceReportError" }

\* the kinds the digest and key ring receivers evaluate
TrustKinds ==
    { "AcceptFileWithoutChecksum", "AcceptUnknownDigest", "AcceptWrongDigest",
      "ImportGpgKey", "AcceptUnsignedFile", "AcceptUnknownGpgKey",
      "AcceptVerificationFailed" }

\* the kinds the patch script and patch message receivers evaluate, next
\* to ScriptProblem
ScriptKinds == { "ScriptStart", "ScriptProgress", "ScriptFinish", "Message" }

Kinds ==
    ProgressKinds \cup StartKinds \cup ProbeKinds \cup ProblemKinds
        \cup { "MediaChange", "DoneDownload" } \cup TrustKinds
        \cup ScriptKinds

Handlers == { "h1", "h2" }

\* percentages the engine reports
ProgressValues == { 0, 4, 5, 96, 100 }

VARIABLES
    ycpcb,                  \* YCPCallbacks: kind -> handler or Unset
    now,                    \* time(NULL)
    last_reported,          \* per throttled stream, once its start member
                            \* has assigned it: the last value passed on
    last_reported_time,     \* per throttled stream: the time of that call
    _last,                  \* InstallPkgReceive::_last
    last_reported_repo,     \* PkgFunctions::last_reported_repo
    last_reported_mediumnr, \* PkgFunctions::last_reported_mediumnr
    _silent_probing,        \* global MediaChangeSensitivity
    redirect_map,           \* global RedirectMap
    starts,                 \* package starts of the current commit run
    source_changes,         \* SourceChange invocations of the current run
    pc,                     \* "idle", or "commit" while PkgCommit runs
    feed,                   \* next value of the synthetic 0..100 stream
    handler_calls,          \* handler invocations during the synthetic stream
    journal,                \* what the receivers delivered to the host and
                            \* returned, in the scenarios that keep a record
    attempt,                \* the engine's installation attempt in progress
    pool,                   \* the status of every item of the engine's pool
    pkg,                    \* members of PkgFunctions and what they refer to
    ev                      \* the last receiver call: what it invoked, returned

vars ==
    << ycpcb, now, last_reported, last_reported_time, _last,
       last_reported_repo, last_reported_mediumnr, _silent_probing,
       redirect_map, starts, source_changes, pc, feed, handler_calls,
       journal, attempt, pool, pkg, ev >>

\* CB callback( ycpcb( id ) ); callback._set
IsSet(kind) == ycpcb[kind] # Unset

\* one invocation of a registered handler, as recorded in ev.calls
Call_Stale(kind, args) ==
    [ kind |-> kind, handler |-> "h1", args |-> args ]

Call(kind, args) == [ kind |-> kind, handler |-> ycpcb[kind], args |-> args ]

\* a handler call that was answered
Asked(kind, args, reply) ==
    [ kind |-> kind, handler |-> Call(kind, args).handler, args |-> args,
      reply |-> reply ]

\* the record of one receiver call: receiver, member, arguments, the
\* handlers it invoked in order, and what it returned to the engine
Event(rcv, op, arg, calls, ret) ==
    [ rcv |-> rcv, op |-> op, arg |-> arg, calls |-> calls, ret |-> ret ]

Invoked(kind) == \E i \in 1..Len(ev.calls) : ev.calls[i].kind = kind

(***************************************************************************)
(* Callback registry                                                       *)
(***************************************************************************)

\* SET_YCP_CB(E, A): registering replaces the handler of that kind only
setYCPCallback(kind, handler) ==
    /\ ycpcb' = [ ycpcb EXCEPT ![kind] = handler ]
    /\ ev' = Event("YCPCallbacks", "setYCPCallback", << kind, handler >>, << >>, "void")
    /\ UNCHANGED << now, last_reported, last_reported_time, _last,
                    last_reported_repo, last_reported_mediumnr,
                    _silent_probing, redirect_map, starts, source_changes,
                    pc, attempt, pool, pkg, feed, handler_calls >>

\* one second passes on the wall clock read by time(NULL)
Tick ==
    /\ now < MaxClock
    /\ now' = now + 1
    /\ ev' = Event("clock", "tick", << >>, << >>, "void")
    /\ UNCHANGED << ycpcb, last_reported, last_reported_time, _last,
                    last_reported_repo, last_reported_mediumnr,
                    _silent_probing, redirect_map, starts, source_changes,
                    pc,
                    journal, attempt, pool, pkg, feed, handler_calls >>

(***************************************************************************)
(* Progress throttle                                                       *)
(***************************************************************************)

\* the condition every throttled progress member tests besides callback._set
ShouldReport_NoFull(value, last, last_time, current_time) ==
    \/ value - last >= MinProgressStep
    \/ last - value >= MinProgressStep
    \/ current_time - last_time >= callback_timeout

ShouldReport_Strict(value, last, last_time, current_time) ==
    \/ value - last > MinProgressStep
    \/ last - value > MinProgressStep
    \/ value = FullPercent
    \/ current_time - last_time >= callback_timeout

ShouldReport(value, last, last_time, current_time) ==
    \/ value - last >= MinProgressStep
    \/ last - value >= MinProgressStep
    \/ value = FullPercent
    \/ current_time - last_time >= callback_timeout

\* what the parent report's progress() returns: continue
DefaultProgress == TRUE

\* the fields after a report was passed on
Reported(f, s, v) == [ f EXCEPT ![s] = v ]

\* the fields after a throttled update that was not passed on
Suppressed_Track(f, s, v) == [ f EXCEPT ![s] = v ]

Suppressed(f, s, v) == f

\* the common body of the six throttled progress members; ret is what the
\* member returns when the handler was invoked, dflt what it returns
\* otherwise (feed belongs to the driver of the stream and is set by the
\* caller of this step)
ThrottledProgress(s, value, hret, ret, dflt) ==
    LET kind == ProgressKind(s)
        emit == /\ IsSet(kind)
                /\ ShouldReport(value, last_reported[s],
                                last_reported_time[s], now)
    IN  /\ s \in DOMAIN last_reported
        /\ IF emit
           THEN /\ last_reported' = Reported(last_reported, s, value)
                /\ last_reported_time' = Reported(last_reported_time, s, now)
                /\ ev' = Event(s, "progress", << value >>,
                               << Asked(kind, << value >>, hret) >>, ret)
                /\ handler_calls' =
                       IF feed >= 0 THEN handler_calls + 1 ELSE handler_calls
           ELSE /\ last_reported' = Suppressed(last_reported, s, value)
                /\ last_reported_time' = Suppressed(last_reported_time, s, now)
                /\ ev' = Event(s, "progress", << value >>, << >>, dflt)
                /\ UNCHANGED handler_calls
        /\ UNCHANGED << ycpcb, now, _last, last_reported_repo,
                        last_reported_mediumnr, _silent_probing, redirect_map,
                        starts, source_changes, pc,
                    journal, attempt, pool, pkg >>

InstallPkgReceive_progress(value, hret) ==
    ThrottledProgress("InstallPkg", value, hret, hret, DefaultProgress)

DownloadResolvableReceive_progress(value, hret) ==
    ThrottledProgress("DownloadResolvable", value, hret, hret, DefaultProgress)

DownloadProgressReceive_progress(value, hret) ==
    ThrottledProgress("DownloadProgress", value, hret, hret, DefaultProgress)

progressDeltaDownload(value, hret) ==
    ThrottledProgress("DeltaDownload", value, hret, hret, DefaultProgress)

\* virtual void progressDeltaApply( int value ): the reply is dropped
progressDeltaApply(value, hret) ==
    ThrottledProgress("DeltaApply", value, hret, "void", "void")

progressPatchDownload(value, hret) ==
    ThrottledProgress("PatchDownload", value, hret, hret, DefaultProgress)

\* the progress members without throttle state: every update is passed on
PlainProgress(s, value, hret, ret) ==
    LET kind == ProgressKind(s)
    IN  /\ IF IsSet(kind)
           THEN ev' = Event(s, "progress", << value >>,
                            << Asked(kind, << value >>, hret) >>, ret)
           ELSE ev' = Event(s, "progress", << value >>, << >>, DefaultProgress)
        /\ UNCHANGED << ycpcb, now, last_reported, last_reported_time, _last,
                        last_reported_repo, last_reported_mediumnr,
                        _silent_probing, redirect_map, starts, source_changes,
                        pc,
                    journal, attempt, pool, pkg, handler_calls >>

RemovePkgReceive_progress(value, hret) == PlainProgress("RemovePkg", value, hret, hret)

SourceCreateReceive_progress(value, hret) ==
    PlainProgress("SourceCreate", value, hret, hret)

ProbeSourceReceive_progress(value, hret) ==
    PlainProgress("ProbeSource", value, hret, hret)

\* the reply of the handler dropped
RepoReport_progress_Dropped(value, hret) ==
    PlainProgress("RepoReport", value, hret, DefaultProgress)

RepoReport_progress(value, hret) == PlainProgress("RepoReport", value, hret, hret)

\* callback.evaluate(); then the parent's default is returned
RebuildDbReceive_progress(value, hret) ==
    PlainProgress("RebuildDb", value, hret, DefaultProgress)

ConvertDbReceive_progress(value, hret) ==
    PlainProgress("ConvertDb", value, hret, DefaultProgress)

\* start members that reset the counter and notify their start handler
StreamStart(s, kind) ==
    /\ last_reported' = Assign(last_reported, s, 0)
    /\ last_reported_time' = Assign(last_reported_time, s, now)
    /\ ev' = Event(s, "start", << >>,
                   IF IsSet(kind) THEN << Call(kind, << >>) >> ELSE << >>,
                   "void")
    /\ UNCHANGED << ycpcb, now, _last, last_reported_repo,
                    last_reported_mediumnr, _silent_probing, redirect_map,
                    starts, source_changes, pc,
                    journal, attempt, pool, pkg, handler_calls >>

DownloadProgressReceive_start == StreamStart("DownloadProgress", "StartDownload")

startDeltaDownload == StreamStart("DeltaDownload", "StartDeltaDownload")

startDeltaApply == StreamStart("DeltaApply", "StartDeltaApply")

startPatchDownload == StreamStart("PatchDownload", "StartPatchDownload")

(***************************************************************************)
(* Package starts and the SourceChange notification                        *)
(***************************************************************************)

PkgA == [ name |-> "A", kind |-> "package", repo |-> 0, medianr |-> 1 ]

PkgB == [ name |-> "B", kind |-> "package", repo |-> 0, medianr |-> 2 ]

PkgC == [ name |-> "C", kind |-> "package", repo |-> 1, medianr |-> 1 ]

PatchP == [ name |-> "P", kind |-> "patch", repo |-> 1, medianr |-> 2 ]

Packages == { PkgA, PkgB, PkgC }

Resolvables == Packages \cup { PatchP }

\* source_id != LastReportedRepo() || media_nr != LastReportedMedium()
SourceChanged_Both(source_id, media_nr) ==
    source_id # last_reported_repo /\ media_nr # last_reported_mediumnr

SourceChanged(source_id, media_nr) ==
    source_id # last_reported_repo \/ media_nr # last_reported_mediumnr

\* the SourceChange block shared by both package starts: the handler call
\* (when registered) for a changed source or medium
SourceChangeCalls(res) ==
    IF SourceChanged(res.repo, res.medianr) /\ IsSet("SourceChange")
    THEN << Call("SourceChange", << res.repo, res.medianr >>) >>
    ELSE << >>

\* _pkg_ref.SetReportedSource(source_id, media_nr) inside that block
ReportSource_Keep(res) ==
    UNCHANGED << last_reported_repo, last_reported_mediumnr >>

\* the values set only when the handler was told
ReportSource_IfSet(res) ==
    IF SourceChanged(res.repo, res.medianr) /\ IsSet("SourceChange")
    THEN /\ last_reported_repo' = res.repo
         /\ last_reported_mediumnr' = res.medianr
    ELSE UNCHANGED << last_reported_repo, last_reported_mediumnr >>

ReportSource(res) ==
    IF SourceChanged(res.repo, res.medianr)
    THEN /\ last_reported_repo' = res.repo
         /\ last_reported_mediumnr' = res.medianr
    ELSE UNCHANGED << last_reported_repo, last_reported_mediumnr >>

\* the record of a package start and of its SourceChange call in the
\* history of the running commit (the history opens with the entry of
\* PkgCommit itself)
LogStart(rcv, res, calls) ==
    IF pc = "commit"
    THEN /\ Len(starts) <= MaxStarts
         /\ starts' = Append(starts, [ rcv |-> rcv, res |-> res,
                                       set |-> IsSet("SourceChange") ])
         /\ source_changes' =
                IF calls # << >> /\ calls[1].kind = "SourceChange"
                THEN Append(source_changes, calls[1].args)
                ELSE source_changes
    ELSE UNCHANGED << starts, source_changes >>

\* InstallPkgReceive::start without the test for the remembered resolvable
InstallPkgReceive_start_Always(res) ==
    /\ res.kind = "package"
    /\ last_reported' = Assign(last_reported, "InstallPkg", 0)
    /\ last_reported_time' = Assign(last_reported_time, "InstallPkg", now)
    /\ LET calls ==
               SourceChangeCalls(res) \o
               ( IF IsSet("StartPackage")
                 THEN << Call("StartPackage", << res.name, FALSE >>) >>
                 ELSE << >> )
       IN  /\ ev' = Event("InstallPkg", "start", << res >>, calls, "void")
           /\ LogStart("InstallPkg", res, calls)
           /\ ReportSource(res)
           /\ _last' = res
    /\ UNCHANGED << ycpcb, now, _silent_probing, redirect_map, pc,
                    handler_calls >>

\* InstallPkgReceive::start
InstallPkgReceive_start(res) ==
    /\ res.kind = "package"
    /\ last_reported' = Assign(last_reported, "InstallPkg", 0)
    /\ last_reported_time' = Assign(last_reported_time, "InstallPkg", now)
    /\ IF _last = res
       THEN /\ ev' = Event("InstallPkg", "start", << res >>, << >>, "void")
            /\ LogStart("InstallPkg", res, << >>)
            /\ UNCHANGED << _last, last_reported_repo, last_reported_mediumnr >>
       ELSE LET calls ==
                    SourceChangeCalls(res) \o
                    ( IF IsSet("StartPackage")
                      THEN << Call("StartPackage", << res.name, FALSE >>) >>
                      ELSE << >> )
            IN  /\ ev' = Event("InstallPkg", "start", << res >>, calls, "void")
                /\ LogStart("InstallPkg", res, calls)
                /\ ReportSource(res)
                /\ _last' = res
    /\ UNCHANGED << ycpcb, now, _silent_probing, redirect_map, pc,
                    handler_calls >>

\* DownloadResolvableReceive::start
DownloadResolvableReceive_start(res) ==
    /\ last_reported' = Assign(last_reported, "DownloadResolvable", 0)
    /\ last_reported_time' =
           Assign(last_reported_time, "DownloadResolvable", now)
    /\ LET calls ==
               ( IF res.kind = "package" THEN SourceChangeCalls(res) ELSE << >> )
               \o ( IF IsSet("StartProvide")
                    THEN << Call("StartProvide", << res.name >>) >>
                    ELSE << >> )
       IN  /\ ev' = Event("DownloadResolvable", "start", << res >>, calls, "void")
           /\ LogStart("DownloadResolvable", res, calls)
    /\ IF res.kind = "package"
       THEN ReportSource(res)
       ELSE UNCHANGED << last_reported_repo, last_reported_mediumnr >>
    /\ UNCHANGED << ycpcb, now, _last, _silent_probing, redirect_map, pc,
                    journal, attempt, pool, pkg,
                    handler_calls >>

\* reset the values for SourceChange callback
ResetReportedSource_Keep ==
    UNCHANGED << last_reported_repo, last_reported_mediumnr >>

ResetReportedSource ==
    /\ last_reported_repo' = NoRepo
    /\ last_reported_mediumnr' = FirstMedium

\* PkgFunctions::PkgCommit up to the call of the engine's commit: the
\* values for the SourceChange callback are reset; the history of the run
\* opens with the resolvable the install receiver saw last
PkgCommit_call(medianr) ==
    /\ pc = "idle"
    /\ medianr >= 0
    /\ ResetReportedSource
    /\ pc' = "commit"
    /\ starts' = << [ rcv |-> "PkgCommit", res |-> _last,
                      set |-> IsSet("SourceChange") ] >>
    /\ source_changes' = << >>
    /\ ev' = Event("PkgFunctions", "PkgCommit", << medianr >>, << >>, "running")
    /\ UNCHANGED << ycpcb, now, last_reported, last_reported_time, _last,
                    _silent_probing, redirect_map, handler_calls, journal,
                    attempt, pool, pkg >>

\* what CreateBaseProductSymlink finds of the base product: none added,
\* one without a reference package, one whose reference solvable is not a
\* package, a reference package without a file /etc/products.d/*.prod, or
\* the name of that file
ProductFiles == { "x.prod", "y.prod" }

BaseProducts == { "none", "noref", "notpkg", "nofile" } \cup ProductFiles

\* what stat, unlink and symlink do to the link this time
FsOutcomes == [ stat_error : BOOLEAN, unlink_ok : BOOLEAN, symlink_ok : BOOLEAN ]

FsFine == [ stat_error |-> FALSE, unlink_ok |-> TRUE, symlink_ok |-> TRUE ]

\* PkgFunctions::CreateBaseProductSymlink: what it returns, and the file
\* /etc/products.d/baseproduct points to afterwards
CreateBaseProductSymlink(product, link, fs) ==
    IF product \in { "none", "noref" }
    THEN [ ret |-> TRUE, base_link |-> link ]
    ELSE IF product \in { "notpkg", "nofile" }
    THEN [ ret |-> FALSE, base_link |-> link ]
    ELSE IF fs.stat_error
    THEN [ ret |-> FALSE, base_link |-> link ]
    ELSE IF link # "absent" /\ ~ fs.unlink_ok
    THEN [ ret |-> FALSE, base_link |-> link ]
    ELSE IF ~ fs.symlink_ok
    THEN [ ret |-> FALSE, base_link |-> "absent" ]
    ELSE [ ret |-> TRUE, base_link |-> product ]

\* the values the builtins return to the host
YCPVoid == [ type |-> "void" ]

YCPList(value) == [ type |-> "list", value |-> value ]

\* a member function PkgCommit calls on its way, and what it returned
Step(name, ret) == [ kind |-> name, handler |-> "PkgFunctions", args |-> ret ]

\* zypp::ZYpp::CommitResult: the result code and the lists of items
CommitResults ==
    [ _result : { 0, 1 }, _errors : { << >>, << "a" >> },
      _remaining : { << >>, << "p" >>, << "s", "a" >> },
      _srcremaining : { << >> } ]

CleanResult ==
    [ _result |-> 0, _errors |-> << >>, _remaining |-> << >>,
      _srcremaining |-> << >> ]

\* the kind symbol of a remaining item in the list PkgCommit returns
ReportKind(item) ==
    IF KindOf[item] \in { "product", "pattern", "patch" }
    THEN KindOf[item] ELSE "package"

\* the list PkgCommit returns: successful, failed, remaining, srcremaining
CommitReport(result) ==
    << result._result,
       result._errors,
       [ i \in DOMAIN result._remaining |->
           [ name |-> result._remaining[i],
             kind |-> ReportKind(result._remaining[i]) ] ],
       result._srcremaining >>

\* the tail of PkgCommit with the base link made before the repositories
\* are released
CommitTail_LinkFirst(made) ==
    << Step("CreateBaseProductSymlink", << made >>),
       Step("SourceReleaseAll", << >>) >>

\* the tail of PkgCommit after the try block
CommitTail(made) ==
    << Step("SourceReleaseAll", << >>),
       Step("CreateBaseProductSymlink", << made >>) >>

\* the engine's commit returns and PkgCommit releases the repositories,
\* makes the base link and builds its result
PkgCommit_return(result, fs) ==
    /\ pc = "commit"
    /\ pc' = "idle"
    /\ LET made == CreateBaseProductSymlink(pkg.base_product, pkg.base_link, fs)
       IN  /\ pkg' = [ pkg EXCEPT !.base_link = made.base_link ]
           /\ ev' = Event("PkgFunctions", "PkgCommit", << "returned", result >>,
                          CommitTail(made.ret), YCPList(CommitReport(result)))
    /\ UNCHANGED << ycpcb, now, last_reported, last_reported_time, _last,
                    last_reported_repo, last_reported_mediumnr,
                    _silent_probing, redirect_map, starts, source_changes,
                    handler_calls, journal, attempt, pool >>

\* the exceptions the engine raises
Aborted == "zypp::target::TargetAbortedException"

EngineExceptions ==
    { [ type |-> Aborted, msg |-> "aborted" ],
      [ type |-> "zypp::Exception", msg |-> "m1" ],
      [ type |-> "zypp::Exception", msg |-> "m2" ] }

ExceptionAsString(excpt) == excpt.msg

\* every exception of the engine taken for a failure
CommitCatch_Failure(excpt, last) ==
    [ ret |-> YCPVoid, _last_error |-> ExceptionAsString(excpt) ]

\* no exception of the engine recorded
CommitCatch_Forget(excpt, last) ==
    IF excpt.type = Aborted
    THEN [ ret |-> YCPList(<< -1 >>), _last_error |-> last ]
    ELSE [ ret |-> YCPVoid, _last_error |-> last ]

\* the catch clauses of PkgCommit: what it returns and the last error
CommitCatch(excpt, last) ==
    IF excpt.type = Aborted
    THEN [ ret |-> YCPList(<< -1 >>), _last_error |-> last ]
    ELSE [ ret |-> YCPVoid, _last_error |-> ExceptionAsString(excpt) ]

\* the engine's commit raises an exception and PkgCommit returns at once
PkgCommit_raise(excpt) ==
    /\ pc = "commit"
    /\ pc' = "idle"
    /\ LET caught == CommitCatch(excpt, pkg._last_error)
       IN  /\ pkg' = [ pkg EXCEPT !._last_error = caught._last_error ]
           /\ ev' = Event("PkgFunctions", "PkgCommit", << "raised", excpt >>,
                          << >>, caught.ret)
    /\ UNCHANGED << ycpcb, now, last_reported, last_reported_time, _last,
                    last_reported_repo, last_reported_mediumnr,
                    _silent_probing, redirect_map, starts, source_changes,
                    handler_calls, journal, attempt, pool >>

\* PkgCommit called with a negative media number
PkgCommit_badargs(medianr) ==
    /\ pc = "idle"
    /\ medianr < 0
    /\ ev' = Event("PkgFunctions", "PkgCommit", << "refused", medianr >>,
                   << >>, [ type |-> "error" ])
    /\ UNCHANGED << ycpcb, now, last_reported, last_reported_time, _last,
                    last_reported_repo, last_reported_mediumnr,
                    _silent_probing, redirect_map, starts, source_changes,
                    pc, handler_calls, journal, attempt, pool, pkg >>

(***************************************************************************)
(* Initial state: nothing registered, no receiver member assigned yet      *)
(***************************************************************************)

Init ==
    /\ ycpcb = [ k \in Kinds |-> Unset ]
    /\ now = 0
    /\ last_reported = EmptyMap
    /\ last_reported_time = EmptyMap
    /\ _last = NullRes
    /\ last_reported_repo = NoRepo
    /\ last_reported_mediumnr = FirstMedium
    /\ _silent_probing = "MEDIA_CHANGE_FULL"
    /\ redirect_map = EmptyMap
    /\ starts = << >>
    /\ source_changes = << >>
    /\ pc = "idle"
    /\ feed = -1
    /\ handler_calls = 0
    /\ journal = << >>
    /\ attempt = NoAttempt
    /\ pool = [ i \in PoolItems |-> Neutral ]
    /\ pkg = NoSession
    /\ ev = Event("none", "init", << >>, << >>, "void")

(***************************************************************************)
(* Specification of the progress throttle: the host registers progress     *)
(* handlers, the engine starts streams and reports percentages, time passes*)
(***************************************************************************)

\* the progress kinds in use: registered, or looked up by a started stream
UsedKinds ==
    { k \in ProgressKinds :
        \/ IsSet(k)
        \/ \E s \in ThrottledStreams :
              ProgressKind(s) = k /\ s \in DOMAIN last_reported }

\* a run of this specification exercises the progress members of one
\* callback kind: the members share nothing but the clock and the registry
WithinKinds(k) == UsedKinds \subseteq { k }

NextThrottle ==
    \/ \E k \in ProgressKinds :
          /\ WithinKinds(k)
          /\ setYCPCallback(k, "h1")
          /\ UNCHANGED << feed, journal >>
    \/ Tick /\ UNCHANGED feed
    \/ WithinKinds("ProgressPackage")
          /\ InstallPkgReceive_start(PkgA)
          /\ UNCHANGED << feed, journal, attempt, pool, pkg >>
    \/ WithinKinds("ProgressProvide")
          /\ DownloadResolvableReceive_start(PkgA) /\ UNCHANGED feed
    \/ WithinKinds("ProgressDownload")
          /\ DownloadProgressReceive_start /\ UNCHANGED feed
    \/ WithinKinds("ProgressDeltaDownload")
          /\ startDeltaDownload /\ UNCHANGED feed
    \/ WithinKinds("ProgressDeltaApply")
          /\ startDeltaApply /\ UNCHANGED feed
    \/ WithinKinds("ProgressPatchDownload")
          /\ startPatchDownload /\ UNCHANGED feed
    \/ \E v \in ProgressValues, h \in BOOLEAN :
          /\ UNCHANGED feed
          /\ \/ InstallPkgReceive_progress(v, h)
             \/ DownloadResolvableReceive_progress(v, h)
             \/ DownloadProgressReceive_progress(v, h)
             \/ progressDeltaDownload(v, h)
             \/ progressDeltaApply(v, h)
             \/ progressPatchDownload(v, h)
    \/ \E v \in ProgressValues, h \in BOOLEAN :
          /\ UNCHANGED feed
          /\ \/ WithinKinds("ProgressPackage")
                   /\ RemovePkgReceive_progress(v, h)
             \/ WithinKinds("SourceCreateProgress")
                   /\ SourceCreateReceive_progress(v, h)
             \/ WithinKinds("SourceProbeProgress")
                   /\ ProbeSourceReceive_progress(v, h)
             \/ WithinKinds("SourceReportProgress")
                   /\ RepoReport_progress(v, h)
    \/ \E v \in ProgressValues, h \in BOOLEAN :
          /\ UNCHANGED feed
          /\ \/ WithinKinds("ProgressRebuildDb")
                   /\ RebuildDbReceive_progress(v, h)
             \/ WithinKinds("ProgressConvertDb")
                   /\ ConvertDbReceive_progress(v, h)

SpecThrottle == Init /\ [][NextThrottle]_vars

Abs(x) == IF x < 0 THEN -x ELSE x

\* the last call was a progress update of a throttled stream
ThrottledEvent(e) == e.op = "progress" /\ e.rcv \in ThrottledStreams

\* C1: a progress update of a throttled stream whose handler is registered
\* invokes the handler if and only if the value differs from the last
\* reported one by at least 5, or is 100, or at least 3 seconds have passed
\* since the last report.
C1_InvokedIffShouldReport ==
    [][ ( ThrottledEvent(ev') /\ IsSet(ProgressKind(ev'.rcv)) ) =>
          ( ev'.calls # << >> <=>
              \/ Abs(ev'.arg[1] - last_reported[ev'.rcv]) >= 5
              \/ ev'.arg[1] = 100
              \/ now - last_reported_time[ev'.rcv] >= 3 ) ]_vars

\* a registered handler was not invoked for an update of its stream
C1_Witness ==
    /\ ThrottledEvent(ev)
    /\ IsSet(ProgressKind(ev.rcv))
    /\ ev.arg = << 4 >>
    /\ ev.calls = << >>

\* C2: an emitted update sets the stream's last reported value and time to
\* the emitted value and the current time; a suppressed update, also one
\* suppressed because no handler is registered, changes neither field.
C2_FieldsFollowEmission ==
    [][ ThrottledEvent(ev') =>
          IF ev'.calls # << >>
          THEN /\ last_reported'[ev'.rcv] = ev'.arg[1]
               /\ last_reported_time'[ev'.rcv] = now'
          ELSE UNCHANGED << last_reported, last_reported_time >> ]_vars

\* an update of 100 percent was suppressed for want of a handler
C2_Witness ==
    /\ ThrottledEvent(ev)
    /\ ~ IsSet(ProgressKind(ev.rcv))
    /\ ev.arg = << 100 >>
    /\ ev.calls = << >>
    /\ last_reported[ev.rcv] = 0

\* C4 as claimed: the progress handlers of the receivers without throttle
\* state are not invoked again for a value within 5 of the value of the
\* invocation just before (not 100, no time passed in between).
C4_PlainProgressThrottled ==
    [][ ( /\ ev.op = "progress" /\ ev'.op = "progress"
          /\ ev.rcv \in PlainStreams /\ ev'.rcv = ev.rcv
          /\ ev.calls # << >>
          /\ Abs(ev'.arg[1] - ev.arg[1]) < 5
          /\ ev'.arg[1] # 100
          /\ now' - now < 3 )
        => ev'.calls = << >> ]_vars

(***************************************************************************)
(* Specification of the synthetic stream: after registration and the start *)
(* of one throttled stream the values 0, 1, ..., 100 are fed in order and  *)
(* no time passes                                                          *)
(***************************************************************************)

NextRamp ==
    \/ \E s \in ThrottledStreams :
          /\ feed = -1
          /\ WithinKinds(ProgressKind(s))
          /\ setYCPCallback(ProgressKind(s), "h1")
          /\ UNCHANGED << feed, journal >>
    \/ /\ feed = -1
       /\ feed' = 0
       /\ \/ WithinKinds("ProgressPackage")
                /\ InstallPkgReceive_start(PkgA)
                /\ UNCHANGED << journal, attempt, pool, pkg >>
          \/ WithinKinds("ProgressProvide")
                /\ DownloadResolvableReceive_start(PkgA)
          \/ WithinKinds("ProgressDownload") /\ DownloadProgressReceive_start
          \/ WithinKinds("ProgressDeltaDownload") /\ startDeltaDownload
          \/ WithinKinds("ProgressDeltaApply") /\ startDeltaApply
          \/ WithinKinds("ProgressPatchDownload") /\ startPatchDownload
    \/ /\ feed \in 0..FullPercent
       /\ feed' = feed + 1
       /\ \/ InstallPkgReceive_progress(feed, TRUE)
          \/ DownloadResolvableReceive_progress(feed, TRUE)
          \/ DownloadProgressReceive_progress(feed, TRUE)
          \/ progressDeltaDownload(feed, TRUE)
          \/ progressDeltaApply(feed, TRUE)
          \/ progressPatchDownload(feed, TRUE)

SpecRamp == Init /\ [][NextRamp]_vars

\* the stream being fed has a registered handler
RampRegistered ==
    \E s \in DOMAIN last_reported : IsSet(ProgressKind(s))

\* C3 as claimed: the whole stream 0..100 invokes the handler 21 times.
C3_TwentyOneCalls ==
    ( feed = FullPercent + 1 /\ RampRegistered ) => handler_calls = 21

\* C3 as amended: after the values 0..n of the stream the handler was
\* invoked once for every multiple of 5 in 1..n, so 20 times after 0..100
\* (at 5, 10, ..., 100; the value 0 is suppressed).
C3_OneCallPerFive ==
    ( feed >= 1 /\ RampRegistered ) =>
        /\ handler_calls = (feed - 1) \div 5
        /\ feed = FullPercent + 1 => handler_calls = 20

\* the whole stream was fed to a registered handler
C3_Witness ==
    feed = FullPercent + 1 /\ RampRegistered /\ ev.calls # << >>

(***************************************************************************)
(* Media change requests and the redirect map                              *)
(***************************************************************************)

\* enum MediaChangeSensitivity
Sensitivities ==
    { "MEDIA_CHANGE_FULL", "MEDIA_CHANGE_DISABLE", "MEDIA_CHANGE_OPTIONALFILE" }

\* zypp::media::MediaChangeReport::Error
MediaErrors == { "NO_ERROR", "NOT_FOUND", "IO", "INVALID", "WRONG", "IO_SOFT" }

\* strings are sequences of characters
Letters == { "d", "E", "I", "C", "S", "x" }

Digits == << "0", "1", "2", "3", "4", "5", "6", "7", "8", "9" >>

\* the position of the colon that ends the scheme, 0 when the text has no
\* scheme (one or more letters followed by a colon)
SchemeEnd(text) ==
    IF \E i \in 2..Len(text) :
           text[i] = ":" /\ \A j \in 1..(i - 1) : text[j] \in Letters
    THEN CHOOSE i \in 2..Len(text) :
           text[i] = ":" /\ \A j \in 1..(i - 1) : text[j] \in Letters
    ELSE 0

\* zypp::Url(ret) throws for a text that is no URL
IsValidUrl(text) == SchemeEnd(text) # 0

\* zypp::Url(ret): the URL object of a valid text
ParseUrl(text) ==
    [ scheme |-> SubSeq(text, 1, SchemeEnd(text) - 1),
      path   |-> SubSeq(text, SchemeEnd(text) + 1, Len(text)) ]

\* Url::asString()
asString(url) == url.scheme \o << ":" >> \o url.path

RECURSIVE DigitsValue(_, _)
\* the number read from the leading digits of text, after acc
DigitsValue(text, acc) ==
    IF text # << >> /\ \E d \in 1..10 : Digits[d] = text[1]
    THEN DigitsValue(Tail(text),
                     10 * acc + (CHOOSE d \in 1..10 : Digits[d] = text[1]) - 1)
    ELSE acc

\* zypp::str::strtonum<unsigned int>: 0 when the text starts with no digit
strtonum(text) == DigitsValue(text, 0)

UrlA == [ scheme |-> << "d" >>, path |-> << "a" >> ]

UrlB == [ scheme |-> << "d" >>, path |-> << "b" >> ]

Urls == { UrlA, UrlB }

Media == { 1, 2 }

\* the replies of the MediaChange handler
Replies ==
    { << >>, << "I" >>, << "C" >>, << "E" >>, << "E", "1" >>, << "S" >>,
      << "x" >>, << ":", "a" >>, asString(UrlA), asString(UrlB),
      << "E", ":", "a" >>, << "E", "2", "x" >> }

\* the lookup in the redirection map: the URL shown to the handler
ReportUrl(url, mediumNr) ==
    IF url \in DOMAIN redirect_map /\ mediumNr \in DOMAIN redirect_map[url]
    THEN redirect_map[url][mediumNr]
    ELSE url

\* the redirection remembered under the URL of the request
Remember_OriginalKey(map, url, mediumNr, new_url) ==
    LET source_redir == IF url \in DOMAIN map THEN map[url] ELSE EmptyMap
    IN  Assign(map, url, Assign(source_redir, mediumNr, new_url))

\* "remember the redirection": url was overwritten by the new URL before
\* it is used as the key
Remember(map, url, mediumNr, new_url) ==
    LET key == new_url
        source_redir == IF key \in DOMAIN map THEN map[key] ELSE EmptyMap
    IN  Assign(map, key, Assign(source_redir, mediumNr, new_url))

\* the result of requestMedia: the action, the url and dev_current
\* arguments as it leaves them, and the redirect map
Answer(action, url, dev, map) ==
    [ action |-> action, url |-> url, dev_current |-> dev, map |-> map ]

\* "otherwise change media URL": try { url = zypp::Url(ret); ... }
\* catch ( ... ) { return RETRY; }
ChangeUrl_Throw(ret, url, mediumNr, dev) ==
    IF IsValidUrl(ret)
    THEN Answer("CHANGE_URL", ParseUrl(ret), dev,
                Remember(redirect_map, url, mediumNr, ParseUrl(ret)))
    ELSE Answer("EXCEPTION", url, dev, redirect_map)

ChangeUrl_RememberFirst(ret, url, mediumNr, dev) ==
    IF IsValidUrl(ret)
    THEN Answer("CHANGE_URL", ParseUrl(ret), dev,
                Remember(redirect_map, url, mediumNr, ParseUrl(ret)))
    ELSE Answer("RETRY", url, dev,
                Remember(redirect_map, url, mediumNr, url))

ChangeUrl(ret, url, mediumNr, dev) ==
    IF IsValidUrl(ret)
    THEN Answer("CHANGE_URL", ParseUrl(ret), dev,
                Remember(redirect_map, url, mediumNr, ParseUrl(ret)))
    ELSE Answer("RETRY", url, dev, redirect_map)

\* the decoding that tries the reply as a URL before the eject of a device
Decode_UrlFirst(ret, url, mediumNr, dev) ==
    IF ret = << >> THEN Answer("RETRY", url, dev, redirect_map)
    ELSE IF ret = << "I" >> THEN Answer("IGNORE_ID", url, dev, redirect_map)
    ELSE IF ret = << "C" >> THEN Answer("ABORT", url, dev, redirect_map)
    ELSE IF ret = << "E" >> THEN Answer("EJECT", url, dev, redirect_map)
    ELSE IF ret = << "S" >> THEN Answer("IGNORE", url, dev, redirect_map)
    ELSE IF IsValidUrl(ret) THEN ChangeUrl(ret, url, mediumNr, dev)
    ELSE IF Len(ret) > 1 /\ ret[1] = "E"
         THEN Answer("EJECT", url, strtonum(Tail(ret)), redirect_map)
    ELSE ChangeUrl(ret, url, mediumNr, dev)

\* the decoding of the handler's reply
Decode(ret, url, mediumNr, dev) ==
    IF ret = << >> THEN Answer("RETRY", url, dev, redirect_map)
    ELSE IF ret = << "I" >> THEN Answer("IGNORE_ID", url, dev, redirect_map)
    ELSE IF ret = << "C" >> THEN Answer("ABORT", url, dev, redirect_map)
    ELSE IF ret = << "E" >> THEN Answer("EJECT", url, dev, redirect_map)
    ELSE IF Len(ret) > 1 /\ ret[1] = "E"
         THEN Answer("EJECT", url, strtonum(Tail(ret)), redirect_map)
    ELSE IF ret = << "S" >> THEN Answer("IGNORE", url, dev, redirect_map)
    ELSE ChangeUrl(ret, url, mediumNr, dev)

\* the parent MediaChangeReport::requestMedia
DefaultRequestMedia == "ABORT"

\* the two tests before the handler is looked up
Silenced_NotFoundOnly(error) ==
    /\ _silent_probing # "MEDIA_CHANGE_FULL"
    /\ error = "NOT_FOUND"

Silenced_AnyError(error) == _silent_probing # "MEDIA_CHANGE_FULL"

Silenced(error) ==
    \/ _silent_probing = "MEDIA_CHANGE_DISABLE"
    \/ /\ _silent_probing = "MEDIA_CHANGE_OPTIONALFILE"
       /\ error = "NOT_FOUND"

\* MediaChangeReceive::requestMedia
requestMedia(url, mediumNr, error, dev_current) ==
    LET arg == << url, mediumNr, error, dev_current >>
    IN  /\ IF Silenced(error)
           THEN /\ ev' = Event("MediaChange", "requestMedia", arg, << >>,
                               Answer("ABORT", url, dev_current, redirect_map))
                /\ UNCHANGED redirect_map
           ELSE IF IsSet("MediaChange")
           THEN \E ret \in Replies :
                  LET answer == Decode(ret, url, mediumNr, dev_current)
                  IN  /\ ev' = Event("MediaChange", "requestMedia", arg,
                                     << [ kind |-> "MediaChange",
                                          handler |-> ycpcb["MediaChange"],
                                          args |-> << asString(ReportUrl(url, mediumNr)),
                                                      mediumNr >>,
                                          reply |-> ret ] >>,
                                     answer)
                      /\ redirect_map' = answer.map
           ELSE /\ ev' = Event("MediaChange", "requestMedia", arg, << >>,
                               Answer(DefaultRequestMedia, url, dev_current,
                                      redirect_map))
                /\ UNCHANGED redirect_map
        /\ UNCHANGED << ycpcb, now, last_reported, last_reported_time, _last,
                        last_reported_repo, last_reported_mediumnr,
                        _silent_probing, starts, source_changes, pc,
                    journal, attempt, pool, pkg, feed,
                        handler_calls >>

\* start and finish of a probe: the handler is told, the sensitivity is set
ProbeSourceReceive_member(op, arg, sensitivity, kind, args) ==
    /\ _silent_probing' = sensitivity
    /\ ev' = Event("ProbeSource", op, arg,
                   IF IsSet(kind) THEN << Call(kind, args) >> ELSE << >>,
                   "void")
    /\ UNCHANGED << ycpcb, now, last_reported, last_reported_time, _last,
                    last_reported_repo, last_reported_mediumnr, redirect_map,
                    starts, source_changes, pc,
                    attempt, pool, pkg, feed, handler_calls >>

\* ProbeSourceReceive::start
ProbeSourceReceive_start(url) ==
    ProbeSourceReceive_member("start", << url >>, "MEDIA_CHANGE_DISABLE",
                              "SourceProbeStart", << asString(url) >>)

\* zypp::repo::ProbeRepoReport::Error
ProbeErrors == { "NO_ERROR", "NOT_FOUND", "IO", "INVALID", "UNKNOWN" }

\* ProbeSrcErrorAsString: the name of the error; the empty string for a
\* value the switch does not list
ProbeSrcErrorAsString(error) ==
    IF error \in ProbeErrors THEN error ELSE ""

\* the finish that leaves the sensitivity as it finds it
ProbeSourceReceive_finish_Keep(url, error) ==
    ProbeSourceReceive_member("finish", << url, error >>, _silent_probing,
                              "SourceProbeEnd",
                              << asString(url), ProbeSrcErrorAsString(error), "" >>)

\* ProbeSourceReceive::finish
ProbeSourceReceive_finish(url, error) ==
    ProbeSourceReceive_member("finish", << url, error >>, "MEDIA_CHANGE_FULL",
                              "SourceProbeEnd",
                              << asString(url), ProbeSrcErrorAsString(error), "" >>)

\* the assignments to the global around the download of an optional file,
\* made by the source functions
SetSilentProbing(sensitivity) ==
    /\ _silent_probing' = sensitivity
    /\ ev' = Event("Source", "SetSilentProbing", << sensitivity >>, << >>, "void")
    /\ UNCHANGED << ycpcb, now, last_reported, last_reported_time, _last,
                    last_reported_repo, last_reported_mediumnr, redirect_map,
                    starts, source_changes, pc,
                    journal, attempt, pool, pkg, feed, handler_calls >>

(***************************************************************************)
(* Specification of the media change requests                              *)
(***************************************************************************)

NextMedia ==
    \/ setYCPCallback("MediaChange", "h1") /\ UNCHANGED << feed, journal >>
    \/ ProbeSourceReceive_start(UrlA) /\ UNCHANGED journal
    \/ ProbeSourceReceive_finish(UrlA, "NO_ERROR") /\ UNCHANGED journal
    \/ \E sensitivity \in { "MEDIA_CHANGE_OPTIONALFILE", "MEDIA_CHANGE_FULL" } :
          SetSilentProbing(sensitivity)
    \/ \E url \in Urls, mediumNr \in Media, error \in MediaErrors :
          requestMedia(url, mediumNr, error, 0)

SpecMedia == Init /\ [][NextMedia]_vars

\* the last call was a media change request
MediaEvent(e) == e.rcv = "MediaChange" /\ e.op = "requestMedia"

\* the reply is one of the control tokens "", "I", "C", "E", "E<n>", "S"
ControlReply(r) ==
    \/ r \in { << >>, << "I" >>, << "C" >>, << "E" >>, << "S" >> }
    \/ Len(r) > 1 /\ r[1] = "E"

\* C5 as claimed: a request on (u, m) answered with CHANGE_URL to v records
\* the entry (u, m) -> v under the original URL u, and the next request on
\* (u, m) presents v to the handler.
C5_RedirectUnderOriginalUrl ==
    [][ /\ ( MediaEvent(ev') /\ ev'.ret.action = "CHANGE_URL" ) =>
              /\ ev'.arg[1] \in DOMAIN redirect_map'
              /\ ev'.arg[2] \in DOMAIN redirect_map'[ev'.arg[1]]
              /\ redirect_map'[ev'.arg[1]][ev'.arg[2]] = ev'.ret.url
        /\ ( /\ MediaEvent(ev) /\ ev.ret.action = "CHANGE_URL"
             /\ MediaEvent(ev') /\ ev'.calls # << >>
             /\ ev'.arg[1] = ev.arg[1] /\ ev'.arg[2] = ev.arg[2] ) =>
              ev'.calls[1].args[1] = asString(ev.ret.url) ]_vars

\* C6: only a request answered with CHANGE_URL writes the redirect map;
\* a request with any other answer (RETRY, IGNORE_ID, ABORT, EJECT, IGNORE,
\* the default without handler) leaves the map and its url argument as
\* they were.
C6_MapWrittenOnlyOnChangeUrl ==
    [][ /\ redirect_map' # redirect_map =>
              MediaEvent(ev') /\ ev'.ret.action = "CHANGE_URL"
        /\ ( MediaEvent(ev') /\ ev'.ret.action # "CHANGE_URL" ) =>
              /\ redirect_map' = redirect_map
              /\ ev'.ret.url = ev'.arg[1] ]_vars

\* an eject of device 1 while a redirect was on record
C6_Witness ==
    /\ MediaEvent(ev)
    /\ ev.ret.action = "EJECT"
    /\ ev.ret.dev_current = 1
    /\ redirect_map # EmptyMap

\* C7: a reply that is no control token and no valid URL makes
\* requestMedia return RETRY: no exception reaches the engine and the
\* redirect map is unchanged.
C7_InvalidUrlRetries ==
    [][ ( /\ MediaEvent(ev') /\ ev'.calls # << >>
          /\ ~ ControlReply(ev'.calls[1].reply)
          /\ ~ IsValidUrl(ev'.calls[1].reply) ) =>
            /\ ev'.ret.action = "RETRY"
            /\ ev'.ret.url = ev'.arg[1]
            /\ redirect_map' = redirect_map ]_vars

\* the handler answered with a text that is no URL while a redirect was on
\* record
C7_Witness ==
    /\ MediaEvent(ev)
    /\ ev.calls # << >>
    /\ ev.calls[1].reply = << "x" >>
    /\ redirect_map # EmptyMap

\* C8: while silent probing is MEDIA_CHANGE_DISABLE every media change
\* request returns ABORT and invokes no handler, whatever the error code.
C8_DisabledAborts ==
    ( MediaEvent(ev) /\ _silent_probing = "MEDIA_CHANGE_DISABLE" ) =>
        /\ ev.ret.action = "ABORT"
        /\ ev.calls = << >>

\* a request with an I/O error was silenced though a handler is registered
C8_Witness ==
    /\ MediaEvent(ev)
    /\ _silent_probing = "MEDIA_CHANGE_DISABLE"
    /\ IsSet("MediaChange")
    /\ ev.arg[3] = "IO"

\* C9: while silent probing is MEDIA_CHANGE_OPTIONALFILE a request is
\* silenced (ABORT, no handler invoked) exactly when its error is
\* NOT_FOUND; with any other error the registered handler is invoked.
C9_OptionalFileSilencesNotFound ==
    ( MediaEvent(ev) /\ _silent_probing = "MEDIA_CHANGE_OPTIONALFILE" ) =>
        IF ev.arg[3] = "NOT_FOUND"
        THEN ev.ret.action = "ABORT" /\ ev.calls = << >>
        ELSE ev.calls # << >> <=> IsSet("MediaChange")

\* a request with an I/O error reached the handler in that mode
C9_Witness ==
    /\ MediaEvent(ev)
    /\ _silent_probing = "MEDIA_CHANGE_OPTIONALFILE"
    /\ ev.arg[3] = "IO"
    /\ ev.calls # << >>

(***************************************************************************)
(* Specification of the commit run: the host registers handlers and calls  *)
(* PkgCommit, the engine reports the starts of downloads and installs      *)
(***************************************************************************)

NextCommit ==
    \/ \E k \in { "SourceChange", "StartPackage" } :
          pc = "idle" /\ setYCPCallback(k, "h1") /\ UNCHANGED journal
    \/ PkgCommit_call(0) /\ UNCHANGED feed
    \/ PkgCommit_return(CleanResult, FsFine) /\ UNCHANGED feed
    \/ \E res \in Resolvables :
          /\ pc = "commit"
          /\ InstallPkgReceive_start(res)
          /\ UNCHANGED << feed, journal, attempt, pool, pkg >>
    \/ \E res \in Resolvables :
          pc = "commit" /\ DownloadResolvableReceive_start(res)
                        /\ UNCHANGED feed

SpecCommit == Init /\ [][NextCommit]_vars

\* the (source id, medium number) pair of a resolvable
SourcePair(res) == << res.repo, res.medianr >>

RECURSIVE FirstOccurrences(_, _, _)
\* the pairs of the package starts log[i..], without those in seen, each
\* once and in the order of first occurrence
FirstOccurrences(log, i, seen) ==
    IF i > Len(log) THEN << >>
    ELSE IF log[i].res.kind = "package" /\ SourcePair(log[i].res) \notin seen
         THEN << SourcePair(log[i].res) >> \o
              FirstOccurrences(log, i + 1, seen \cup { SourcePair(log[i].res) })
         ELSE FirstOccurrences(log, i + 1, seen)

RECURSIVE ChangesFrom(_, _, _, _)
\* the pairs of the package starts log[i..] that differ from the pair of
\* the package start before them (pair at first), for the starts made
\* while a handler was registered; an install start of the resolvable of
\* the install start before it (last at first) does not count as a start
ChangesFrom(log, i, last, pair) ==
    IF i > Len(log) THEN << >>
    ELSE LET e == log[i]
             counted == /\ e.res.kind = "package"
                        /\ ~ ( e.rcv = "InstallPkg" /\ e.res = last )
             changed == counted /\ SourcePair(e.res) # pair
         IN  ( IF changed /\ e.set THEN << SourcePair(e.res) >> ELSE << >> )
             \o ChangesFrom(log, i + 1,
                            IF e.rcv = "InstallPkg" THEN e.res ELSE last,
                            IF changed THEN SourcePair(e.res) ELSE pair)

FirstPackageStart ==
    LET idx == { i \in 2..Len(starts) : starts[i].res.kind = "package" }
    IN  IF idx = {} THEN 0 ELSE CHOOSE i \in idx : \A j \in idx : i <= j

PackageStart(e) ==
    /\ e.op = "start"
    /\ e.rcv \in { "InstallPkg", "DownloadResolvable" }
    /\ e.arg[1].kind = "package"

\* the calls of a start that reported a change of the source: SourceChange
\* with the item's pair first, the start notifications after it
SourceChangeFirst(e) ==
    /\ e.calls # << >>
    /\ e.calls[1].kind = "SourceChange"
    /\ e.calls[1].args = SourcePair(e.arg[1])
    /\ \A i \in 2..Len(e.calls) :
          e.calls[i].kind \in { "StartPackage", "StartProvide" }

MaxJournal == 4

\* what the handlers answer
ProblemReplies ==
    { "", "R", "C", "I", "A", "ABORT", "RETRY", "IGNORE", "x" }

\* the parent report's problem(): the action the library defines
ParentProblem == "PARENT_DEFAULT"

\* InstallPkgReceive::problem and RemovePkgReceive::problem: "R" retry,
\* "C" cancel, otherwise ignore
PackageReply(ret) ==
    CASE ret = "R" -> "RETRY"
      [] ret = "C" -> "ABORT"
      [] OTHER     -> "IGNORE"

\* DownloadResolvableReceive::problem and DownloadProgressReceive::problem
DownloadReply_CancelIgnored(ret) ==
    CASE ret = "R" -> "RETRY"
      [] ret = "C" -> "IGNORE"
      [] ret = "I" -> "IGNORE"
      [] OTHER     -> ParentProblem

DownloadReply_ElseAbort(ret) ==
    CASE ret = "R" -> "RETRY"
      [] ret = "C" -> "ABORT"
      [] ret = "I" -> "IGNORE"
      [] OTHER     -> "ABORT"

DownloadReply(ret) ==
    CASE ret = "R" -> "RETRY"
      [] ret = "C" -> "ABORT"
      [] ret = "I" -> "IGNORE"
      [] OTHER     -> ParentProblem

\* ScriptExecReceive::problem
ScriptReply(ret) ==
    CASE ret = "A" -> "ABORT"
      [] ret = "I" -> "IGNORE"
      [] ret = "R" -> "RETRY"
      [] OTHER     -> ParentProblem

\* SourceCreateReceive::problem and ProbeSourceReceive::problem
SourceReply(result) ==
    CASE result = "ABORT" -> "ABORT"
      [] result = "RETRY" -> "RETRY"
      [] OTHER            -> ParentProblem

\* RepoReport::problem
ReportReply(result) ==
    CASE result = "ABORT"  -> "ABORT"
      [] result = "RETRY"  -> "RETRY"
      [] result = "IGNORE" -> "IGNORE"
      [] OTHER             -> ParentProblem

\* the reply decoded by the problem member of a receiver
ProblemReply(rcv, ret) ==
    CASE rcv \in { "InstallPkg", "RemovePkg" } -> PackageReply(ret)
      [] rcv \in { "DownloadResolvable", "DownloadProgress" } ->
             DownloadReply(ret)
      [] rcv = "ScriptExec" -> ScriptReply(ret)
      [] rcv \in { "SourceCreate", "ProbeSource" } -> SourceReply(ret)
      [] rcv = "RepoReport" -> ReportReply(ret)

\* the body the problem members share: the handler, when registered, is
\* evaluated once and its reply decoded; without handler the parent answers
Problem(rcv, kind, arg, args) ==
    /\ IF IsSet(kind)
       THEN \E ret \in ProblemReplies :
              ev' = Event(rcv, "problem", arg, << Asked(kind, args, ret) >>,
                          ProblemReply(rcv, ret))
       ELSE ev' = Event(rcv, "problem", arg, << >>, ParentProblem)
    /\ UNCHANGED << ycpcb, now, last_reported, last_reported_time,
                    last_reported_repo, last_reported_mediumnr,
                    _silent_probing, redirect_map, starts, source_changes,
                    pc, feed, handler_calls >>

RemovePkgReceive_problem(res, error) ==
    /\ Problem("RemovePkg", "DonePackage", << res, error >>, << error >>)
    /\ UNCHANGED _last

DownloadResolvableReceive_problem(res, error) ==
    /\ Problem("DownloadResolvable", "DoneProvide", << res, error >>,
               << error, res.name >>)
    /\ UNCHANGED _last

DownloadProgressReceive_problem(file, error) ==
    /\ Problem("DownloadProgress", "DoneProvide", << file, error >>,
               << error, asString(file) >>)
    /\ UNCHANGED _last

ScriptExecReceive_problem ==
    /\ Problem("ScriptExec", "ScriptProblem", << >>, << >>)
    /\ UNCHANGED _last

SourceCreateReceive_problem(url, error) ==
    /\ Problem("SourceCreate", "SourceCreateError", << url, error >>,
               << asString(url), error >>)
    /\ UNCHANGED _last

ProbeSourceReceive_problem(url, error) ==
    /\ Problem("ProbeSource", "SourceProbeError", << url, error >>,
               << asString(url), error >>)
    /\ UNCHANGED _last

\* RepoReport::problem: the error of an optional file is ignored at once
RepoReport_problem(source, error) ==
    IF _silent_probing = "MEDIA_CHANGE_OPTIONALFILE"
    THEN /\ ev' = Event("RepoReport", "problem", << source, error >>, << >>,
                        "IGNORE")
         /\ UNCHANGED << ycpcb, now, last_reported, last_reported_time,
                         _last, last_reported_repo, last_reported_mediumnr,
                         _silent_probing, redirect_map, starts,
                         source_changes, pc, feed, handler_calls >>
    ELSE /\ Problem("RepoReport", "SourceReportError", << source, error >>,
                    << source, error >>)
         /\ UNCHANGED _last

\* the severities of an installation attempt
RpmLevels == { "RPM", "RPM_NODEPS", "RPM_NODEPS_FORCE" }

\* InstallPkgReceive::problem: below the forced level the attempt is
\* given up without a word; at the forced level the handler is asked and
\* the resolvable forgotten
InstallPkgReceive_problem(res, error, level) ==
    IF level # "RPM_NODEPS_FORCE"
    THEN /\ ev' = Event("InstallPkg", "problem", << res, error, level >>,
                        << >>, "ABORT")
         /\ UNCHANGED << ycpcb, now, last_reported, last_reported_time,
                         _last, last_reported_repo, last_reported_mediumnr,
                         _silent_probing, redirect_map, starts,
                         source_changes, pc, feed, handler_calls >>
    ELSE /\ _last' = NullRes
         /\ Problem("InstallPkg", "DonePackage", << res, error, level >>,
                    << error >>)

(***************************************************************************)
(* Specification of the download problems: the host registers the handler, *)
(* the engine reports problems of a download and reports again after RETRY *)
(***************************************************************************)

DownloadErrors == { "NOT_FOUND", "IO" }

\* the journal holds the reports of the step being retried: a report after
\* RETRY is added to it, any other report opens it anew
Journalled ==
    IF journal # << >> /\ journal[Len(journal)].ret = "RETRY"
    THEN /\ Len(journal) < MaxJournal
         /\ journal' = Append(journal, ev')
    ELSE journal' = << ev' >>

NextDownload ==
    \/ setYCPCallback("DoneProvide", "h1") /\ UNCHANGED journal
    \/ \E error \in DownloadErrors :
          /\ DownloadResolvableReceive_problem(PkgA, error)
          /\ Journalled
          /\ UNCHANGED << attempt, pool, pkg >>
    \/ \E error \in DownloadErrors :
          /\ DownloadProgressReceive_problem(UrlA, error)
          /\ Journalled
          /\ UNCHANGED << attempt, pool, pkg >>

SpecDownload == Init /\ [][NextDownload]_vars

\* the last call was a problem report of a download
DownloadProblem(e) ==
    e.op = "problem" /\ e.rcv \in { "DownloadResolvable", "DownloadProgress" }

\* the replies and the actions of the reports in the journal
JournalReplies == [ i \in 1..Len(journal) |-> journal[i].calls[1].reply ]

JournalActions == [ i \in 1..Len(journal) |-> journal[i].ret ]

ProblemErrors == { "IO", "INVALID" }

\* a run of this specification exercises the problem members of one kind
OnlyProblemKind(k) == \A j \in ProblemKinds : IsSet(j) => j = k

NextProblem ==
    \/ \E k \in ProblemKinds :
          OnlyProblemKind(k) /\ setYCPCallback(k, "h1") /\ UNCHANGED journal
    \/ \E sensitivity \in { "MEDIA_CHANGE_OPTIONALFILE", "MEDIA_CHANGE_FULL" } :
          SetSilentProbing(sensitivity) /\ UNCHANGED << journal, attempt, pool, pkg >>
    \/ \E error \in ProblemErrors, level \in RpmLevels :
          /\ InstallPkgReceive_problem(PkgA, error, level)
          /\ UNCHANGED << journal, attempt, pool, pkg >>
    \/ \E error \in ProblemErrors :
          /\ UNCHANGED << journal, attempt, pool, pkg >>
          /\ \/ RemovePkgReceive_problem(PkgA, error)
             \/ DownloadResolvableReceive_problem(PkgA, error)
             \/ DownloadProgressReceive_problem(UrlA, error)
             \/ SourceCreateReceive_problem(UrlA, error)
             \/ ProbeSourceReceive_problem(UrlA, error)
             \/ RepoReport_problem(0, error)
    \/ ScriptExecReceive_problem /\ UNCHANGED << journal, attempt, pool, pkg >>

SpecProblem == Init /\ [][NextProblem]_vars

\* the last call was a problem report that the handler answered
AnsweredProblem(e) == e.op = "problem" /\ e.calls # << >>

\* the replies a receiver's problem member can be expected to know
ValidTokens(rcv) ==
    CASE rcv \in { "InstallPkg", "RemovePkg", "DownloadResolvable",
                   "DownloadProgress" } -> { "R", "C", "I" }
      [] rcv = "ScriptExec" -> { "A", "I", "R" }
      [] rcv \in { "SourceCreate", "ProbeSource" } -> { "ABORT", "RETRY" }
      [] rcv = "RepoReport" -> { "ABORT", "RETRY", "IGNORE" }

\* C14 as claimed: in every problem member (package install and removal,
\* resolvable and file download, script, source create, probe and report)
\* a reply that is none of the receiver's tokens yields the action of the
\* parent report's problem(), never a fixed action.
C14_UnknownReplyYieldsParent ==
    ( AnsweredProblem(ev) /\ ev.calls[1].reply \notin ValidTokens(ev.rcv) ) =>
        ev.ret = ParentProblem

\* C14, amended: that holds for the resolvable and file download, script,
\* source create, source probe and source report members; the package
\* install and removal members return IGNORE for every reply other than
\* "R" and "C".
C14_UnknownReplyParentOrIgnore ==
    AnsweredProblem(ev) =>
        IF ev.rcv \in { "InstallPkg", "RemovePkg" }
        THEN ev.calls[1].reply \notin { "R", "C" } => ev.ret = "IGNORE"
        ELSE ev.calls[1].reply \notin ValidTokens(ev.rcv) =>
                 ev.ret = ParentProblem

\* the file download member got an unknown reply
C14_Witness ==
    /\ AnsweredProblem(ev)
    /\ ev.rcv = "DownloadProgress"
    /\ ev.calls[1].reply = "x"
    /\ ev.ret = ParentProblem

(***************************************************************************)
(* Installation of a package: the engine tries the levels RPM, RPM_NODEPS  *)
(* and RPM_NODEPS_FORCE in turn, each attempt a start, perhaps a problem,  *)
(* and a finish                                                            *)
(***************************************************************************)

NoError == "NO_ERROR"

\* InstallPkgReceive::finish: the finish of a failed attempt below the
\* forced level is skipped
SkipFinish_Never(error, level) == FALSE

SkipFinish_Failed(error, level) == error # NoError

SkipFinish(error, level) == error # NoError /\ level # "RPM_NODEPS_FORCE"

\* InstallPkgReceive::finish
InstallPkgReceive_finish(res, error, level) ==
    /\ ev' = Event("InstallPkg", "finish", << res, error, level >>,
                   IF ~ SkipFinish(error, level) /\ IsSet("DonePackage")
                   THEN << Call("DonePackage",
                                << IF level = "RPM_NODEPS_FORCE"
                                   THEN error ELSE NoError >>) >>
                   ELSE << >>,
                   "void")
    /\ UNCHANGED << ycpcb, now, last_reported, last_reported_time, _last,
                    last_reported_repo, last_reported_mediumnr,
                    _silent_probing, redirect_map, starts, source_changes,
                    pc, feed, handler_calls >>

\* the level the engine tries after a failure
NextLevel(level) == IF level = "RPM" THEN "RPM_NODEPS" ELSE "RPM_NODEPS_FORCE"

\* the calls that reached the host are added to the journal
Delivered(sofar) ==
    /\ Len(sofar) + Len(ev'.calls) <= MaxJournal
    /\ journal' = sofar \o ev'.calls

\* the engine starts an attempt: the first one of a package at the level
\* RPM, the one after a failure at the next level
EngineStart(res) ==
    /\ attempt.phase \in { "none", "retry" }
    /\ attempt.phase = "retry" => res = attempt.res
    /\ InstallPkgReceive_start(res)
    /\ attempt' = [ phase |-> "started", res |-> res,
                    level |-> IF attempt.phase = "none"
                              THEN "RPM" ELSE attempt.level,
                    error |-> NoError, answer |-> "none" ]
    /\ Delivered(IF attempt.phase = "none" THEN << >> ELSE journal)
    /\ UNCHANGED << feed, pool, pkg >>

\* the attempt runs into a problem, or into one more after RETRY
EngineProblem(error) ==
    /\ \/ attempt.phase = "started"
       \/ attempt.phase = "problem" /\ attempt.answer = "RETRY"
    /\ InstallPkgReceive_problem(attempt.res, error, attempt.level)
    /\ attempt' = [ attempt EXCEPT !.phase = "problem", !.error = error,
                                   !.answer = ev'.ret ]
    /\ Delivered(journal)
    /\ UNCHANGED << pool, pkg >>

\* the attempt ends: without error when there was no problem or the retry
\* went well, with the error of the problem otherwise
EngineFinish ==
    /\ attempt.phase \in { "started", "problem" }
    /\ LET error == IF attempt.answer = "RETRY" THEN NoError ELSE attempt.error
       IN  /\ InstallPkgReceive_finish(attempt.res, error, attempt.level)
           /\ attempt' = IF error # NoError /\ attempt.level # "RPM_NODEPS_FORCE"
                         THEN [ phase |-> "retry", res |-> attempt.res,
                                level |-> NextLevel(attempt.level),
                                error |-> error, answer |-> "none" ]
                         ELSE [ phase |-> "none" ]
    /\ Delivered(journal)
    /\ UNCHANGED << pool, pkg >>

NextInstall ==
    \/ \E k \in { "StartPackage", "DonePackage" } :
          attempt.phase = "none" /\ setYCPCallback(k, "h1") /\ UNCHANGED journal
    \/ \E res \in { PkgA, PkgB } : EngineStart(res)
    \/ \E error \in ProblemErrors : EngineProblem(error)
    \/ EngineFinish

SpecInstall == Init /\ [][NextInstall]_vars

\* the last call was the given member of the install receiver
InstallEvent(e, op) == e.rcv = "InstallPkg" /\ e.op = op

\* C15: a problem of a package installation reported below the forced
\* level returns ABORT without invoking the DonePackage handler, and the
\* finish of that failed attempt does not invoke it either.
C15_LowLevelProblemSilent ==
    [][ /\ ( InstallEvent(ev', "problem")
             /\ ev'.arg[3] # "RPM_NODEPS_FORCE" ) =>
               ev'.ret = "ABORT" /\ ev'.calls = << >>
        /\ ( /\ InstallEvent(ev', "finish")
             /\ attempt.phase = "problem"
             /\ attempt.level # "RPM_NODEPS_FORCE" ) =>
               ev'.calls = << >> ]_vars

\* the attempt at the level RPM failed and its finish told the registered
\* handler nothing
C15_Witness ==
    /\ InstallEvent(ev, "finish")
    /\ IsSet("DonePackage")
    /\ ev.arg[2] # NoError
    /\ ev.arg[3] = "RPM"
    /\ ev.calls = << >>
    /\ attempt.phase = "retry"

\* the calls in the journal that satisfy a condition
RECURSIVE CountCalls(_, _, _)
CountCalls(log, kind, asked) ==
    IF log = << >> THEN 0
    ELSE ( IF /\ Head(log).kind = kind
              /\ ("reply" \in DOMAIN Head(log)) = asked
           THEN 1 ELSE 0 ) + CountCalls(Tail(log), kind, asked)

\* the installation of a package has ended with both handlers registered
InstallEnded(e, a) ==
    /\ InstallEvent(e, "finish")
    /\ a.phase = "none"
    /\ IsSet("StartPackage")
    /\ IsSet("DonePackage")

RegistryKinds == { "MediaChange", "SourceCreateProgress" }

\* the handler of the last registration of a kind in the journal
RECURSIVE LastRegistered(_, _)
LastRegistered(log, kind) ==
    IF log = << >> THEN Unset
    ELSE IF log[Len(log)].arg[1] = kind
         THEN log[Len(log)].arg[2]
         ELSE LastRegistered(SubSeq(log, 1, Len(log) - 1), kind)

NextRegistry ==
    \/ \E k \in RegistryKinds, h \in Handlers :
          /\ Len(journal) < MaxJournal
          /\ setYCPCallback(k, h)
          /\ journal' = Append(journal, ev')
    \/ SourceCreateReceive_progress(0, TRUE) /\ UNCHANGED feed
    \/ requestMedia(UrlA, 1, "IO", 0)

SpecRegistry == Init /\ [][NextRegistry]_vars

\* the kind a receiver member evaluates
EventKind(e) ==
    IF e.op = "requestMedia" THEN "MediaChange" ELSE ProgressKind(e.rcv)

\* C17: the handler of a kind is the one of its last registration: after
\* registering A and then B for a kind an event of that kind invokes B
\* once and A not at all, and a registration for one kind leaves the
\* handlers of all other kinds as they are.
C17_LastRegistrationWins ==
    /\ \A k \in Kinds : ycpcb[k] = LastRegistered(journal, k)
    /\ ev.op \in { "progress", "requestMedia" } =>
          IF LastRegistered(journal, EventKind(ev)) = Unset
          THEN ev.calls = << >>
          ELSE /\ Len(ev.calls) = 1
               /\ ev.calls[1].kind = EventKind(ev)
               /\ ev.calls[1].handler = LastRegistered(journal, EventKind(ev))

\* h1 and then h2 were registered for the progress of source creation,
\* h1 for the media change in between; the progress went to h2
C17_Witness ==
    /\ Len(journal) = 3
    /\ journal[1].arg = << "SourceCreateProgress", "h1" >>
    /\ journal[2].arg = << "MediaChange", "h1" >>
    /\ journal[3].arg = << "SourceCreateProgress", "h2" >>
    /\ ev.op = "progress"
    /\ ev.calls[1].handler = "h2"
    /\ ycpcb["MediaChange"] = "h1"

(***************************************************************************)
(* Selection: the builtins that change the status of pool items.  A status *)
(* is the engine's zypp::ResStatus: whether the item transacts, is locked  *)
(* or neither, and the causer that made it so.                             *)
(***************************************************************************)

\* zypp::ResStatus::TransactByValue in its order of precedence
Causers == { "SOLVER", "APPL_LOW", "APPL_HIGH", "USER" }

Rank(causer) ==
    CASE causer = "SOLVER"    -> 0
      [] causer = "APPL_LOW"  -> 1
      [] causer = "APPL_HIGH" -> 2
      [] causer = "USER"      -> 3

\* the causer the builtins of the application act as
whoWantsIt == "APPL_HIGH"

\* ResStatus::setTransact: a mark or lock of a superior causer stays, and
\* the call fails; otherwise the item transacts or not, by the causer
setTransact(st, toTransact, causer) ==
    IF toTransact = ( st.transact = "TRANSACT" )
    THEN [ ret |-> TRUE,
           status |-> IF st.transact = "TRANSACT" /\ Rank(st.by) < Rank(causer)
                      THEN [ st EXCEPT !.by = causer ] ELSE st ]
    ELSE IF st.transact # "KEEP_STATE" /\ Rank(st.by) > Rank(causer)
    THEN [ ret |-> FALSE, status |-> st ]
    ELSE [ ret |-> TRUE,
           status |-> [ transact |-> IF toTransact THEN "TRANSACT"
                                                   ELSE "KEEP_STATE",
                        by |-> causer ] ]

\* ResStatus::resetTransact: setTransact(false), the causer forgotten
resetTransact(st, causer) ==
    LET r == setTransact(st, FALSE, causer)
    IN  IF r.ret /\ r.status.transact = "KEEP_STATE"
        THEN [ ret |-> TRUE, status |-> Neutral ]
        ELSE r

\* ResStatus::setLock: only USER and APPL_HIGH lock, the lock replaces a
\* mark the causer may reset; to unlock takes a causer not below the locker
setLock(st, toLock, causer) ==
    IF toLock = ( st.transact = "LOCKED" )
    THEN [ ret |-> TRUE,
           status |-> IF st.transact = "LOCKED" /\ Rank(st.by) < Rank(causer)
                      THEN [ st EXCEPT !.by = causer ] ELSE st ]
    ELSE IF causer \notin { "USER", "APPL_HIGH" }
    THEN [ ret |-> FALSE, status |-> st ]
    ELSE IF toLock
    THEN IF setTransact(st, FALSE, causer).ret
         THEN [ ret |-> TRUE,
                status |-> [ transact |-> "LOCKED", by |-> causer ] ]
         ELSE [ ret |-> FALSE, status |-> st ]
    ELSE IF Rank(st.by) > Rank(causer)
    THEN [ ret |-> FALSE, status |-> st ]
    ELSE [ ret |-> TRUE, status |-> Neutral ]

\* ResStatus::setSoftLock: the item is kept, and kept by the causer, which
\* is what keeps the solver from selecting it on a recommendation
setSoftLock(st, causer) ==
    LET r == setTransact(st, FALSE, causer)
    IN  IF /\ r.ret
           /\ r.status.transact = "KEEP_STATE"
           /\ Rank(r.status.by) < Rank(causer)
        THEN [ ret |-> TRUE, status |-> [ r.status EXCEPT !.by = causer ] ]
        ELSE r

\* Selectable::setToDelete: nothing to delete where nothing is installed
setToDelete(st, causer) == [ ret |-> FALSE, status |-> st ]

\* Selectable::unset: the lock is taken off when the causer may, and the
\* item no longer transacts
unset(st, causer) ==
    setTransact(setLock(st, FALSE, causer).status, FALSE, causer)

\* Selectable::setToInstall: the lock is taken off when the causer may, and
\* the candidate is set to transact
setToInstall(st, causer) ==
    setTransact(setLock(st, FALSE, causer).status, TRUE, causer)

\* one call of a selection builtin: the pool it leaves and what it returns
Selection(op, arg, newpool, ret) ==
    /\ pool' = newpool
    /\ ev' = Event("Pkg", op, arg, << >>, ret)
    /\ UNCHANGED << ycpcb, now, last_reported, last_reported_time, _last,
                    last_reported_repo, last_reported_mediumnr,
                    _silent_probing, redirect_map, starts, source_changes,
                    pc, feed, handler_calls, journal, attempt, pkg >>

\* the solver, the user interface or another part of the application sets
\* an item to transact at its own authority
Select(item, causer) ==
    LET r == setTransact(pool[item], TRUE, causer)
    IN  Selection("Select", << item, causer >>,
                  [ pool EXCEPT ![item] = r.status ], r.ret)

\* the kind symbols ResolvableNeutral knows
NeutralKinds == { "product", "patch", "package", "selection", "pattern" }

\* the pool items of the kind with the name, every one when name is empty
Matching(name, kind) ==
    { i \in PoolItems : KindOf[i] = kind /\ ( name = "" \/ i = name ) }

\* force neutralization on the user level
ForcedReset_Always(st, force) == resetTransact(st, "USER")

ForcedReset(st, force) ==
    IF force THEN resetTransact(st, "USER") ELSE [ ret |-> TRUE, status |-> st ]

ResolvableNeutral(name, kind, force) ==
    IF kind \notin NeutralKinds
    THEN Selection("ResolvableNeutral", << name, kind, force >>, pool, FALSE)
    ELSE LET first(i)  == resetTransact(pool[i], whoWantsIt)
             second(i) == ForcedReset(first(i).status, force)
         IN  Selection("ResolvableNeutral", << name, kind, force >>,
                       [ i \in PoolItems |->
                           IF i \in Matching(name, kind)
                           THEN second(i).status ELSE pool[i] ],
                       \A i \in Matching(name, kind) :
                           first(i).ret /\ second(i).ret)

\* ResolvableSetSoftLock that changes no item unless every item accepts
ResolvableSetSoftLock_Atomic(name, kind) ==
    IF kind \notin NeutralKinds
    THEN Selection("ResolvableSetSoftLock", << name, kind >>, pool, FALSE)
    ELSE LET r(i) == setSoftLock(pool[i], whoWantsIt)
             ret  == \A i \in Matching(name, kind) : r(i).ret
         IN  Selection("ResolvableSetSoftLock", << name, kind >>,
                       [ i \in PoolItems |->
                           IF ret /\ i \in Matching(name, kind)
                           THEN r(i).status ELSE pool[i] ],
                       ret)

ResolvableSetSoftLock(name, kind) ==
    IF kind \notin NeutralKinds
    THEN Selection("ResolvableSetSoftLock", << name, kind >>, pool, FALSE)
    ELSE LET r(i) == setSoftLock(pool[i], whoWantsIt)
         IN  Selection("ResolvableSetSoftLock", << name, kind >>,
                       [ i \in PoolItems |->
                           IF i \in Matching(name, kind)
                           THEN r(i).status ELSE pool[i] ],
                       \A i \in Matching(name, kind) : r(i).ret)

\* zypp::ui::Selectable::get(name): the package of that name, if any
Selectable(name) == { i \in PoolItems : KindOf[i] = "package" /\ i = name }

PkgInstall(name) ==
    IF name = "" \/ Selectable(name) = {}
    THEN Selection("PkgInstall", << name >>, pool, FALSE)
    ELSE LET r == setToInstall(pool[name], whoWantsIt)
         IN  Selection("PkgInstall", << name >>,
                       [ pool EXCEPT ![name] = r.status ], r.ret)

PkgDelete(name) ==
    IF name = "" \/ Selectable(name) = {}
    THEN Selection("PkgDelete", << name >>, pool, FALSE)
    ELSE LET r == setToDelete(pool[name], whoWantsIt)
         IN  Selection("PkgDelete", << name >>,
                       [ pool EXCEPT ![name] = r.status ], r.ret)

PkgNeutral(name) ==
    IF name = "" \/ Selectable(name) = {}
    THEN Selection("PkgNeutral", << name >>, pool, FALSE)
    ELSE LET r == unset(pool[name], whoWantsIt)
         IN  Selection("PkgNeutral", << name >>,
                       [ pool EXCEPT ![name] = r.status ], r.ret)

\* the lock taken at the level of the application
TabooCauser_Application == whoWantsIt

\* lock the package at the USER level (bug #186205)
TabooCauser == "USER"

PkgTaboo(name) ==
    IF name = "" \/ Selectable(name) = {}
    THEN Selection("PkgTaboo", << name >>, pool, FALSE)
    ELSE LET r == setLock(pool[name], TRUE, TabooCauser)
         IN  Selection("PkgTaboo", << name >>,
                       [ pool EXCEPT ![name] = r.status ], r.ret)

\* the kinds ResetAll walks through
ResetKinds == { "package", "pattern", "patch", "product", "srcpackage" }

\* every item reset, of whatever kind
ResetAll_AnyKind(level) ==
    [ i \in PoolItems |-> resetTransact(pool[i], level).status ]

\* ResetAllKind for each of the kinds
ResetAll(level) ==
    [ i \in PoolItems |->
        IF KindOf[i] \in ResetKinds
        THEN resetTransact(pool[i], level).status ELSE pool[i] ]

PkgReset == Selection("PkgReset", << >>, ResetAll("USER"), TRUE)

PkgApplReset == Selection("PkgApplReset", << >>, ResetAll(whoWantsIt), TRUE)

\* the arguments the host passes
Names == { "", "a", "x" }

KindSymbols == { "package", "pattern", "srcpackage" }

NextSelection ==
    \/ \E i \in { "a", "p", "s" }, causer \in Causers : Select(i, causer)
    \/ \E name \in Names, kind \in KindSymbols, force \in BOOLEAN :
          ResolvableNeutral(name, kind, force)
    \/ \E name \in Names : PkgInstall(name)
    \/ \E name \in Names : PkgTaboo(name)
    \/ \E name \in Names, kind \in KindSymbols :
          ResolvableSetSoftLock(name, kind)
    \/ \E name \in Names : PkgDelete(name)
    \/ \E name \in Names : PkgNeutral(name)
    \/ PkgReset
    \/ PkgApplReset

SpecSelection == Init /\ [][NextSelection]_vars

\* the last call is the builtin op
Builtin(e, op) == e.rcv = "Pkg" /\ e.op = op

Marked(st) == st.transact \in { "TRANSACT", "LOCKED" }

\* C18: ResolvableNeutral without force leaves every transact mark and
\* every lock of the causer USER as it is; with force no matching item
\* transacts afterwards, whether the application or the user had marked it
C18_NeutralForce ==
    [][ Builtin(ev', "ResolvableNeutral") =>
          \A i \in PoolItems :
             /\ ( ~ ev'.arg[3] /\ Marked(pool[i]) /\ pool[i].by = "USER" ) =>
                    pool'[i] = pool[i]
             /\ ( /\ ev'.arg[3]
                  /\ i \in Matching(ev'.arg[1], ev'.arg[2])
                  /\ pool[i].transact = "TRANSACT" ) =>
                    pool'[i] = Neutral ]_vars

\* a call without force has failed on an item the user set to transact,
\* which still transacts by USER
C18_Witness ==
    /\ Builtin(ev, "ResolvableNeutral")
    /\ ~ ev.arg[3]
    /\ ~ ev.ret
    /\ \E i \in Matching(ev.arg[1], ev.arg[2]) :
          pool[i] = [ transact |-> "TRANSACT", by |-> "USER" ]

Tabooed(st) == st = [ transact |-> "LOCKED", by |-> "USER" ]

\* C19: PkgTaboo of a package of the pool returns true and leaves it locked
\* by USER whatever its status was, and installing a package locked by USER
\* at an authority below USER fails and leaves it locked
C19_TabooHolds ==
    [][ /\ ( Builtin(ev', "PkgTaboo") /\ Selectable(ev'.arg[1]) # {} ) =>
             ev'.ret /\ Tabooed(pool'[ev'.arg[1]])
        /\ \A i \in PoolItems :
             ( /\ Tabooed(pool[i])
               /\ \/ Builtin(ev', "PkgInstall") /\ ev'.arg[1] = i
                  \/ /\ Builtin(ev', "Select")
                     /\ ev'.arg[1] = i
                     /\ ev'.arg[2] # "USER" ) =>
                 ~ ev'.ret /\ Tabooed(pool'[i]) ]_vars

\* PkgInstall has failed on the package, which is locked by USER
C19_Witness ==
    /\ Builtin(ev, "PkgInstall")
    /\ ~ ev.ret
    /\ Selectable(ev.arg[1]) # {}
    /\ Tabooed(pool[ev.arg[1]])

\* the authority a bulk reset works at
ResetLevel(e) == IF e.op = "PkgReset" THEN "USER" ELSE whoWantsIt

BulkReset(e) == Builtin(e, "PkgReset") \/ Builtin(e, "PkgApplReset")

Mutations ==
    { "PkgInstall", "PkgDelete", "PkgTaboo", "PkgNeutral",
      "ResolvableNeutral", "ResolvableSetSoftLock" }

Mutation(e) == e.rcv = "Pkg" /\ e.op \in Mutations

\* C21: a selection builtin called a second time with the same arguments,
\* right after the first call, leaves the pool as it is and returns what
\* the first call returned
C21_Idempotent ==
    [][ ( Mutation(ev) /\ ev'.rcv = ev.rcv /\ ev'.op = ev.op
                       /\ ev'.arg = ev.arg ) =>
           pool' = pool /\ ev'.ret = ev.ret ]_vars

\* the call names an item that is not in the pool
NoMatch(e) ==
    IF e.op \in { "ResolvableNeutral", "ResolvableSetSoftLock" }
    THEN e.arg[1] # "" /\ Matching(e.arg[1], e.arg[2]) = {}
    ELSE e.arg[1] # "" /\ Selectable(e.arg[1]) = {}

\* C22: a selection builtin called for a name that no item has returns
\* false
C22_NoMatchIsFalse ==
    ( Mutation(ev) /\ NoMatch(ev) ) => ~ ev.ret

(***************************************************************************)
(* Orchestration: PkgSolve and PkgCommit around the engine's resolver and  *)
(* commit, and the builtins when the engine raises an exception            *)
(***************************************************************************)

\* SourceCreateBase has added a base product
SourceCreateBase(product) ==
    /\ pc = "idle"
    /\ pkg' = [ pkg EXCEPT !.base_product = product ]
    /\ ev' = Event("PkgFunctions", "SourceCreateBase", << product >>, << >>,
                   TRUE)
    /\ UNCHANGED << ycpcb, now, last_reported, last_reported_time, _last,
                    last_reported_repo, last_reported_mediumnr,
                    _silent_probing, redirect_map, starts, source_changes,
                    pc, feed, handler_calls, journal, attempt, pool >>

\* an exception leaves the builtin
Propagated(excpt) == << Step("exception", << excpt >>) >>

NoValue == [ type |-> "none" ]

\* what the resolver does: it solves the pool, fails to, or raises
SolveOutcomes == { "solved", "unsolved", "raised" }

\* PkgFunctions::PkgSolve: the resolver's result, false when it raised; when
\* the result is false the problems are fetched from the resolver and saved
PkgSolve(solved, excpt, problems_ok) ==
    /\ pc = "idle"
    /\ pkg' = IF solved = "raised"
              THEN [ pkg EXCEPT !._last_error = ExceptionAsString(excpt) ]
              ELSE pkg
    /\ ev' = IF solved = "solved"
             THEN Event("PkgFunctions", "PkgSolve", << solved >>, << >>, TRUE)
             ELSE IF problems_ok
             THEN Event("PkgFunctions", "PkgSolve", << solved >>,
                        << Step("SaveProblemList", << >>) >>, FALSE)
             ELSE Event("PkgFunctions", "PkgSolve", << solved >>,
                        Propagated(excpt), NoValue)
    /\ UNCHANGED << ycpcb, now, last_reported, last_reported_time, _last,
                    last_reported_repo, last_reported_mediumnr,
                    _silent_probing, redirect_map, starts, source_changes,
                    pc, feed, handler_calls, journal, attempt, pool >>

\* the selection builtins, and whether the calls of the engine are in a
\* try block with catch (...)
TryBlock ==
    [ PkgInstall |-> FALSE, PkgDelete |-> TRUE, PkgTaboo |-> TRUE,
      PkgNeutral |-> TRUE, PkgReset |-> TRUE, PkgApplReset |-> TRUE,
      ResolvableNeutral |-> TRUE, ResolvableSetSoftLock |-> TRUE ]

\* a selection builtin whose first call of the engine raises: false from
\* the catch clause, where there is one
Faulted(op, excpt) ==
    /\ pc = "idle"
    /\ ev' = IF TryBlock[op]
             THEN Event("Pkg", op, << "raised", excpt >>, << >>, FALSE)
             ELSE Event("Pkg", op, << "raised", excpt >>, Propagated(excpt),
                        NoValue)
    /\ UNCHANGED << ycpcb, now, last_reported, last_reported_time, _last,
                    last_reported_repo, last_reported_mediumnr,
                    _silent_probing, redirect_map, starts, source_changes,
                    pc, feed, handler_calls, journal, attempt, pool, pkg >>

NextOrchestrate ==
    \/ \E product \in BaseProducts : SourceCreateBase(product)
    \/ PkgCommit_call(0) /\ UNCHANGED feed
    \/ PkgCommit_badargs(-1) /\ UNCHANGED feed
    \/ \E result \in CommitResults, fs \in FsOutcomes :
          PkgCommit_return(result, fs) /\ UNCHANGED feed
    \/ \E excpt \in EngineExceptions : PkgCommit_raise(excpt) /\ UNCHANGED feed
    \/ \E solved \in SolveOutcomes, excpt \in EngineExceptions,
          problems_ok \in BOOLEAN : PkgSolve(solved, excpt, problems_ok)
    \/ \E op \in DOMAIN TryBlock, excpt \in EngineExceptions :
          Faulted(op, excpt)

SpecOrchestrate == Init /\ [][NextOrchestrate]_vars

\* the step is the end of a PkgCommit whose engine commit did this
CommitEnds(how) ==
    /\ pc = "commit"
    /\ pc' = "idle"
    /\ ev'.op = "PkgCommit"
    /\ ev'.arg[1] = how

\* C23: when the engine's commit raises the user abort, PkgCommit returns
\* the list [-1] and nothing else happens: it calls neither SourceReleaseAll
\* nor CreateBaseProductSymlink, and the last error and the base link are
\* what they were
C23_AbortReturnsAtOnce ==
    [][ ( CommitEnds("raised") /\ ev'.arg[2].type = Aborted ) =>
           /\ ev'.ret = YCPList(<< -1 >>)
           /\ ev'.calls = << >>
           /\ pkg' = pkg ]_vars

\* a commit was aborted after an earlier one had failed and left its error
C23_Witness ==
    /\ ev.op = "PkgCommit"
    /\ Len(ev.arg) = 2
    /\ ev.arg[1] = "raised"
    /\ ev.arg[2].type = Aborted
    /\ pkg._last_error = "m1"
    /\ pkg.base_link = "x.prod"

\* C24: when the engine's commit raises another exception, PkgCommit
\* records it as the last error and returns void, and calls neither
\* SourceReleaseAll nor CreateBaseProductSymlink
C24_FailureRecorded ==
    [][ ( CommitEnds("raised") /\ ev'.arg[2].type # Aborted ) =>
           /\ ev'.ret = YCPVoid
           /\ ev'.calls = << >>
           /\ pkg' = [ pkg EXCEPT !._last_error = ev'.arg[2].msg ] ]_vars

\* a commit has failed with the error m2 after one had failed with m1
C24_Witness ==
    /\ ev.op = "PkgCommit"
    /\ Len(ev.arg) = 2
    /\ ev.arg[1] = "raised"
    /\ ev.arg[2] = [ type |-> "zypp::Exception", msg |-> "m2" ]
    /\ pkg._last_error = "m2"
    /\ pkg.base_link = "x.prod"

\* C25: when the engine's commit returns, PkgCommit calls SourceReleaseAll
\* and then CreateBaseProductSymlink, and returns the list made of the
\* engine's result whatever the link step returned
C25_ReleaseThenLink ==
    [][ CommitEnds("returned") =>
           /\ Len(ev'.calls) = 2
           /\ ev'.calls[1].kind = "SourceReleaseAll"
           /\ ev'.calls[2].kind = "CreateBaseProductSymlink"
           /\ ev'.ret = YCPList(CommitReport(ev'.arg[2]))
           /\ pkg'._last_error = pkg._last_error ]_vars

\* a commit has returned a result with a failed and two remaining items
\* while the link step failed and took the link away
C25_Witness ==
    /\ ev.op = "PkgCommit"
    /\ Len(ev.arg) = 2
    /\ ev.arg[1] = "returned"
    /\ Len(ev.calls) = 2
    /\ ev.calls[2].args = << FALSE >>
    /\ ev.ret.value[1] = 1
    /\ ev.ret.value[2] = << "a" >>
    /\ Len(ev.ret.value[3]) = 2
    /\ ev.ret.value[3][1].kind = "package"
    /\ pkg.base_product \in ProductFiles
    /\ pkg.base_link = "absent"

\* the builtins that call the engine
EntryPoints == { "PkgSolve", "PkgCommit" } \cup DOMAIN TryBlock

\* C27: no exception of the engine leaves PkgSolve, PkgCommit or a
\* selection builtin
C27_NoExceptionPropagates ==
    ev.op \in EntryPoints =>
       \A i \in 1..Len(ev.calls) : ev.calls[i].kind # "exception"

(***************************************************************************)
(* Saved state: SaveState and RestoreState over the status every item of   *)
(* the pool keeps aside                                                    *)
(***************************************************************************)

\* ResPoolProxy::diffState: some item transacts otherwise than its saved
\* status does, and not by the solver
diffState(current, saved) ==
    \E i \in PoolItems :
       /\ current[i].transact # saved[i].transact
       /\ current[i].by # "SOLVER"

\* PkgFunctions::SaveState
SaveState ==
    /\ pc = "idle"
    /\ pkg' = [ pkg EXCEPT !.saved = pool, !.state_saved = TRUE ]
    /\ ev' = Event("PkgFunctions", "SaveState", << >>, << >>, TRUE)
    /\ UNCHANGED << ycpcb, now, last_reported, last_reported_time, _last,
                    last_reported_repo, last_reported_mediumnr,
                    _silent_probing, redirect_map, starts, source_changes,
                    pc, feed, handler_calls, journal, attempt, pool >>

\* the argument of RestoreState: nil, false or true
CheckOnly == { "nil", "false", "true" }

\* what RestoreState returns and the pool it leaves
Restored(ch) ==
    IF ch = "true"
    THEN [ ret |-> diffState(pool, pkg.saved), pool |-> pool ]
    ELSE IF ~ pkg.state_saved
    THEN [ ret |-> FALSE, pool |-> pool ]
    ELSE [ ret |-> TRUE, pool |-> pkg.saved ]

\* PkgFunctions::RestoreState
RestoreState(ch) ==
    /\ pc = "idle"
    /\ pool' = Restored(ch).pool
    /\ ev' = Event("PkgFunctions", "RestoreState", << ch >>, << >>,
                   Restored(ch).ret)
    /\ UNCHANGED << ycpcb, now, last_reported, last_reported_time, _last,
                    last_reported_repo, last_reported_mediumnr,
                    _silent_probing, redirect_map, starts, source_changes,
                    pc, feed, handler_calls, journal, attempt, pkg >>

\* PkgFunctions::ClearSaveState that forgets the saved state
ClearSaveState_Clears ==
    /\ pc = "idle"
    /\ pkg' = [ pkg EXCEPT !.state_saved = FALSE ]
    /\ ev' = Event("PkgFunctions", "ClearSaveState", << >>, << >>, TRUE)
    /\ UNCHANGED << ycpcb, now, last_reported, last_reported_time, _last,
                    last_reported_repo, last_reported_mediumnr,
                    _silent_probing, redirect_map, starts, source_changes,
                    pc, feed, handler_calls, journal, attempt, pool >>

\* PkgFunctions::ClearSaveState: does nothing and returns true
ClearSaveState ==
    /\ pc = "idle"
    /\ ev' = Event("PkgFunctions", "ClearSaveState", << >>, << >>, TRUE)
    /\ UNCHANGED << ycpcb, now, last_reported, last_reported_time, _last,
                    last_reported_repo, last_reported_mediumnr,
                    _silent_probing, redirect_map, starts, source_changes,
                    pc, feed, handler_calls, journal, attempt, pool, pkg >>

NextState ==
    \/ ClearSaveState
    \/ \E i \in { "a", "p" }, causer \in { "SOLVER", "USER" } : Select(i, causer)
    \/ \E name \in Names : PkgInstall(name)
    \/ PkgReset
    \/ SaveState
    \/ \E ch \in CheckOnly : RestoreState(ch)

SpecState == Init /\ [][NextState]_vars

\* C29: while SaveState has not been called, RestoreState returns false,
\* whatever its argument, and leaves the pool as it is
C29_NoSavedStateIsFalse ==
    [][ ( ev'.op = "RestoreState" /\ ~ pkg.state_saved ) =>
           ~ ev'.ret /\ pool' = pool ]_vars

(***************************************************************************)
(* Cancellation through the progress members                               *)
(***************************************************************************)

\* the progress members that evaluate the handler and drop what it returns
DropsReply == { "RebuildDb", "ConvertDb", "DeltaApply" }

\* the progress members that return nothing
VoidProgress == { "DeltaApply" }

ProgressEvent(e) == e.rcv \in Streams /\ e.op = "progress"

\* the handler was invoked for the update and returned false
HandlerSaidAbort(e) == e.calls # << >> /\ ~ e.calls[1].reply

\* the member has returned false to the engine
ReportsAbort(e) == e.rcv \notin VoidProgress /\ ~ e.ret

\* the member has returned what the parent report returns
ReportsDefault(e) == e.rcv \in VoidProgress \/ e.ret = DefaultProgress

\* C28 as stated: a progress member returns false exactly when the handler
\* was invoked for the update and returned false, and returns the default
\* of the library when no handler was invoked
C28_AbortIffHandlerSaidSo ==
    ProgressEvent(ev) =>
       /\ ReportsAbort(ev) <=> HandlerSaidAbort(ev)
       /\ ev.calls = << >> => ReportsDefault(ev)

\* C28: a progress member returns false only when the handler was invoked
\* for the update and returned false, and then always unless it is one of
\* the members that drop the reply; it returns the default of the library
\* when no handler was invoked
C28_AbortOnlyByHandler ==
    ProgressEvent(ev) =>
       /\ ReportsAbort(ev) => HandlerSaidAbort(ev)
       /\ ( HandlerSaidAbort(ev) /\ ev.rcv \notin DropsReply ) => ReportsAbort(ev)
       /\ ( HandlerSaidAbort(ev) /\ ev.rcv \in DropsReply ) => ReportsDefault(ev)
       /\ ev.calls = << >> => ReportsDefault(ev)

\* the handler of SourceReportProgress has returned false and the member
\* has passed it on
C28_Witness ==
    /\ ProgressEvent(ev)
    /\ ev.rcv = "RepoReport"
    /\ HandlerSaidAbort(ev)
    /\ ReportsAbort(ev)

(***************************************************************************)
(* Trust and verification questions: the members of DigestReceive and      *)
(* KeyRingReceive                                                          *)
(***************************************************************************)

\* the members and the receiver each belongs to
DigestQuestions ==
    { "askUserToAcceptNoDigest", "askUserToAccepUnknownDigest",
      "askUserToAcceptWrongDigest" }

KeyRingQuestions ==
    { "askUserToAcceptKey", "askUserToAcceptUnsignedFile",
      "askUserToAcceptUnknownKey", "askUserToAcceptVerificationFailed" }

TrustQuestions == DigestQuestions \cup KeyRingQuestions

TrustReceiver(op) ==
    IF op \in DigestQuestions THEN "DigestReceive" ELSE "KeyRingReceive"

\* CB callback( ycpcb( YCPCallbacks::CB_... ) ) of each member
TrustKind(op) ==
    CASE op = "askUserToAcceptNoDigest" -> "AcceptFileWithoutChecksum"
      [] op = "askUserToAccepUnknownDigest" -> "AcceptUnknownDigest"
      [] op = "askUserToAcceptWrongDigest" -> "AcceptWrongDigest"
      [] op = "askUserToAcceptKey" -> "ImportGpgKey"
      [] op = "askUserToAcceptUnsignedFile" -> "AcceptUnsignedFile"
      [] op = "askUserToAcceptUnknownKey" -> "AcceptUnknownGpgKey"
      [] op = "askUserToAcceptVerificationFailed" -> "AcceptVerificationFailed"

\* what the engine asks about: a file, the digest or key id it names, the
\* key, and the repository of the key context as logFindAlias numbers it
TrustFiles == { "content", "repomd.xml" }

TrustSubjects ==
    [ file : TrustFiles, name : { "sha1" }, found : { "sha256" },
      key : { "key1" }, srcid : { 0, -1 } ]

\* callback.addStr / addMap / addInt of each member, in order
TrustArgs(op, q) ==
    CASE op = "askUserToAcceptNoDigest" -> << q.file >>
      [] op = "askUserToAccepUnknownDigest" -> << q.file, q.name >>
      [] op = "askUserToAcceptWrongDigest" -> << q.file, q.name, q.found >>
      [] op = "askUserToAcceptKey" -> << q.key, q.srcid >>
      [] op = "askUserToAcceptUnsignedFile" -> << q.file, q.srcid >>
      [] op = "askUserToAcceptUnknownKey" -> << q.file, q.name, q.srcid >>
      [] op = "askUserToAcceptVerificationFailed" ->
             << q.file, q.key, q.srcid >>

\* zypp::KeyRingReport::KeyTrust
KeyTrust == { "KEY_DONT_TRUST", "KEY_TRUST_TEMPORARILY", "KEY_TRUST_AND_IMPORT" }

\* what the parent report answers when no handler is registered
ParentTrust(op) ==
    IF op = "askUserToAcceptKey" THEN "KEY_DONT_TRUST" ELSE FALSE

TrustReply_Reject(op, res) ==
    IF op = "askUserToAcceptKey" THEN "KEY_DONT_TRUST" ELSE FALSE

\* what a member returns for the boolean of the handler:
\* res ? KEY_TRUST_AND_IMPORT : KEY_DONT_TRUST for the key, res otherwise
TrustReply(op, res) ==
    IF op = "askUserToAcceptKey"
    THEN IF res THEN "KEY_TRUST_AND_IMPORT" ELSE "KEY_DONT_TRUST"
    ELSE res

\* one question: the handler, when registered, is evaluated once and its
\* boolean returned; without handler the parent report answers
Ask(op, q) ==
    /\ IF IsSet(TrustKind(op))
       THEN \E res \in BOOLEAN :
              ev' = Event(TrustReceiver(op), op, q,
                          << Asked(TrustKind(op), TrustArgs(op, q), res) >>,
                          TrustReply(op, res))
       ELSE ev' = Event(TrustReceiver(op), op, q, << >>, ParentTrust(op))
    /\ UNCHANGED << ycpcb, now, last_reported, last_reported_time, _last,
                    last_reported_repo, last_reported_mediumnr,
                    _silent_probing, redirect_map, starts, source_changes,
                    pc, feed, handler_calls, journal, attempt, pool, pkg >>

\* the host registers handlers for the questions, the engine asks them
NextTrust ==
    \/ \E k \in TrustKinds : setYCPCallback(k, "h1") /\ UNCHANGED journal
    \/ \E op \in TrustQuestions, q \in TrustSubjects : Ask(op, q)

SpecTrust == Init /\ [][NextTrust]_vars

TrustEvent(e) == e.op \in TrustQuestions

\* the answer the engine has got is an acceptance
Accepted(e) ==
    IF e.op = "askUserToAcceptKey" THEN e.ret # "KEY_DONT_TRUST" ELSE e.ret

\* C26: every trust or verification question is answered with reject when
\* no handler is registered for its kind, and with exactly the boolean of
\* the handler, which is invoked once, when one is registered
C26_TrustRejectsUnlessHandlerAccepts ==
    TrustEvent(ev) =>
       IF IsSet(TrustKind(ev.op))
       THEN /\ Len(ev.calls) = 1
            /\ ev.calls[1].kind = TrustKind(ev.op)
            /\ ev.calls[1].handler = ycpcb[TrustKind(ev.op)]
            /\ Accepted(ev) = ev.calls[1].reply
       ELSE /\ ev.calls = << >>
            /\ ~ Accepted(ev)

\* a handler registered for ImportGpgKey has accepted the key and the
\* engine has been told to trust and import it, while the question about an
\* unsigned file has no handler
C26_Witness ==
    /\ ev.op = "askUserToAcceptKey"
    /\ ev.calls # << >>
    /\ ev.calls[1].reply
    /\ ev.ret = "KEY_TRUST_AND_IMPORT"
    /\ ~ IsSet("AcceptUnsignedFile")

(***************************************************************************)
(* Patch scripts and patch messages: the members of ScriptExecReceive and  *)
(* MessageReceive, and the receivers the constructor of ZyppReceive        *)
(* connects to the engine                                                  *)
(***************************************************************************)

\* every member left alone by the script and message members
ScriptFrame ==
    UNCHANGED << ycpcb, now, last_reported, last_reported_time, _last,
                 last_reported_repo, last_reported_mediumnr, _silent_probing,
                 redirect_map, starts, source_changes, pc, feed,
                 handler_calls, journal, attempt, pool, pkg >>

\* what zypp::target::PatchMessageReport::show returns
DefaultShow == TRUE

\* void start( pkg, path_r ): the handler is evaluated, nothing is returned
ScriptExecReceive_start(res, path_r) ==
    /\ ev' = Event("ScriptExec", "start", << res, path_r >>,
                   IF IsSet("ScriptStart")
                   THEN << Call("ScriptStart",
                                << res.name, res.edition, res.arch, path_r >>) >>
                   ELSE << >>,
                   "void")
    /\ ScriptFrame

\* bool progress( ping, out ): the boolean of the handler, or the default
ScriptExecReceive_progress(ping, out, hret) ==
    /\ ev' = IF IsSet("ScriptProgress")
             THEN Event("ScriptExec", "progress", << ping, out >>,
                        << Asked("ScriptProgress", << ping = "PING", out >>, hret) >>,
                        hret)
             ELSE Event("ScriptExec", "progress", << ping, out >>, << >>,
                        DefaultProgress)
    /\ ScriptFrame

\* void finish()
ScriptExecReceive_finish ==
    /\ ev' = Event("ScriptExec", "finish", << >>,
                   IF IsSet("ScriptFinish")
                   THEN << Call("ScriptFinish", << >>) >> ELSE << >>,
                   "void")
    /\ ScriptFrame

\* bool show( p ): the boolean of the handler, or the default
MessageReceive_show(p, hret) ==
    /\ ev' = IF IsSet("Message")
             THEN Event("Message", "show", << p >>,
                        << Asked("Message",
                                 << p.name, p.edition, p.arch, p.message >>,
                                 hret) >>,
                        hret)
             ELSE Event("Message", "show", << p >>, << >>, DefaultShow)
    /\ ScriptFrame

\* the receivers ZyppReceive owns, and the report each of them receives
Receivers ==
    { "ConvertDb", "RebuildDb", "InstallPkg", "RemovePkg",
      "DownloadResolvable", "MediaChange", "DownloadProgress", "ScriptExec",
      "Message", "SourceCreate", "RepoReport", "ProbeSource", "Progress",
      "DigestReceive", "KeyRingReceive", "KeyRingSignal" }

\* the receivers the constructor connects: _scriptExecReceive.connect()
\* and _messageReceive.connect() are commented out
Connected == Receivers \ { "ScriptExec", "Message" }

\* the report of the engine a receiver derives from
ReportOf(rcv) ==
    CASE rcv = "ScriptExec" -> "PatchScriptReport"
      [] rcv = "Message" -> "PatchMessageReport"
      [] OTHER -> rcv

\* an event of a report reaches the member of the receiver connected for
\* it; with no receiver connected the report's own member answers and no
\* receiver of this program runs
Deliver(rcv, op, arg, Member, dflt) ==
    IF rcv \in Connected
    THEN Member
    ELSE /\ ev' = Event(ReportOf(rcv), op, arg, << >>, dflt)
         /\ ScriptFrame

\* the patches whose message the engine shows
Patches ==
    { [ name |-> "patch", edition |-> "1-1", arch |-> "noarch",
        message |-> "reboot needed" ] }

\* the packages that carry the script of a patch
ScriptPackages ==
    { [ name |-> "A", edition |-> "1-1", arch |-> "noarch" ],
      [ name |-> "B", edition |-> "2-1", arch |-> "i586" ] }

ScriptPaths == { "/var/tmp/script" }

Notify == { "OUTPUT", "PING" }

ScriptOutputs == { "", "line" }

\* the engine runs the script of a patch and shows the message of a patch
EmitScriptStart(res, path_r) ==
    Deliver("ScriptExec", "start", << res, path_r >>,
            ScriptExecReceive_start(res, path_r), "void")

EmitScriptProgress(ping, out, hret) ==
    Deliver("ScriptExec", "progress", << ping, out >>,
            ScriptExecReceive_progress(ping, out, hret), DefaultProgress)

EmitScriptProblem ==
    Deliver("ScriptExec", "problem", << >>,
            ScriptExecReceive_problem /\ UNCHANGED << journal, attempt, pool, pkg >>,
            ParentProblem)

EmitScriptFinish ==
    Deliver("ScriptExec", "finish", << >>, ScriptExecReceive_finish, "void")

EmitMessage(p, hret) ==
    Deliver("Message", "show", << p >>, MessageReceive_show(p, hret),
            DefaultShow)

\* while the callback handler object is alive the host registers handlers
\* for the script and message kinds and the engine emits the events
NextScript ==
    \/ \E k \in ScriptKinds \cup { "ScriptProblem" }, h \in Handlers :
          setYCPCallback(k, h) /\ UNCHANGED journal
    \/ \E res \in ScriptPackages, path_r \in ScriptPaths : EmitScriptStart(res, path_r)
    \/ \E ping \in Notify, out \in ScriptOutputs, hret \in BOOLEAN :
          EmitScriptProgress(ping, out, hret)
    \/ EmitScriptProblem
    \/ EmitScriptFinish
    \/ \E p \in Patches, hret \in BOOLEAN : EmitMessage(p, hret)

SpecScript == Init /\ [][NextScript]_vars

\* the kind registered for an event of a patch script or a patch message
ScriptEventKind(op) ==
    CASE op = "start" -> "ScriptStart"
      [] op = "progress" -> "ScriptProgress"
      [] op = "problem" -> "ScriptProblem"
      [] op = "finish" -> "ScriptFinish"
      [] op = "show" -> "Message"

\* the engine has emitted an event of a patch script or a patch message
ScriptEmitted(e) ==
    e.rcv \in { "ScriptExec", "Message", "PatchScriptReport",
                "PatchMessageReport" }

\* C30: when the engine emits an event of a patch script or a patch message
\* and a handler is registered for its kind, that handler is invoked for
\* the event
C30_ScriptHandlerInvoked ==
    ( ScriptEmitted(ev) /\ IsSet(ScriptEventKind(ev.op)) ) =>
       /\ Len(ev.calls) = 1
       /\ ev.calls[1].kind = ScriptEventKind(ev.op)
       /\ ev.calls[1].handler = ycpcb[ScriptEventKind(ev.op)]

(***************************************************************************)
(* Patches: ResolvableCountPatches and ResolvablePreselectPatches          *)
(***************************************************************************)

\* what the engine knows of each patch of the pool: whether the system
\* needs it, its category and its flags
PatchInfo ==
    [ t |-> [ isNeeded |-> TRUE, category |-> "security",
              interactive |-> TRUE, reboot_needed |-> FALSE,
              affects_pkg_manager |-> TRUE ],
      u |-> [ isNeeded |-> TRUE, category |-> "optional",
              interactive |-> TRUE, reboot_needed |-> TRUE,
              affects_pkg_manager |-> FALSE ],
      v |-> [ isNeeded |-> TRUE, category |-> "recommended",
              interactive |-> FALSE, reboot_needed |-> TRUE,
              affects_pkg_manager |-> FALSE ],
      w |-> [ isNeeded |-> FALSE, category |-> "security",
              interactive |-> TRUE, reboot_needed |-> TRUE,
              affects_pkg_manager |-> TRUE ] ]

PatchItems == { i \in PoolItems : KindOf[i] = "patch" }

\* the symbols ResolvableSetPatches accepts
PatchKinds == { "all", "interactive", "reboot_needed", "affects_pkg_manager" }

\* the patches the loop of ResolvableSetPatches gets to count or select:
\* needed, not optional, and of the kind asked for
Preselectable(kind) ==
    { i \in PatchItems :
        /\ PatchInfo[i].isNeeded
        /\ PatchInfo[i].category # "optional"
        /\ \/ kind = "all"
           \/ kind = "interactive" /\ PatchInfo[i].interactive
           \/ kind = "affects_pkg_manager" /\ PatchInfo[i].affects_pkg_manager
           \/ kind = "reboot_needed" /\ PatchInfo[i].reboot_needed }

YCPInteger(value) == [ type |-> "integer", value |-> value ]

\* YCPError(message, YCPInteger(0LL))
YCPErrorInteger == [ type |-> "error", value |-> 0 ]

\* ResolvableSetPatches(kind_r, preselect): the pool it leaves and the
\* number it returns; counting counts every candidate, preselecting counts
\* the candidates setTransact(true, whoWantsIt) has accepted
SetPatches(kind, preselect) ==
    IF kind \notin PatchKinds
    THEN [ pool |-> pool, ret |-> YCPErrorInteger ]
    ELSE IF ~ preselect
    THEN [ pool |-> pool, ret |-> YCPInteger(Cardinality(Preselectable(kind))) ]
    ELSE LET r(i) == setTransact(pool[i], TRUE, whoWantsIt)
         IN  [ pool |-> [ i \in PoolItems |->
                            IF i \in Preselectable(kind)
                            THEN r(i).status ELSE pool[i] ],
               ret |-> YCPInteger(Cardinality(
                          { i \in Preselectable(kind) : r(i).ret })) ]

ResolvableCountPatches(kind) ==
    Selection("ResolvableCountPatches", << kind >>,
              SetPatches(kind, FALSE).pool, SetPatches(kind, FALSE).ret)

ResolvablePreselectPatches(kind) ==
    Selection("ResolvablePreselectPatches", << kind >>,
              SetPatches(kind, TRUE).pool, SetPatches(kind, TRUE).ret)

\* the user interface puts a taboo on an item: a lock at the USER level
Taboo(item) ==
    LET r == setLock(pool[item], TRUE, "USER")
    IN  Selection("Taboo", << item >>, [ pool EXCEPT ![item] = r.status ],
                  r.ret)

PatchSymbols == PatchKinds \cup { "security" }

\* the solver and the user interface mark and lock patches, the
\* application counts and preselects them and neutralizes them again
NextPatches ==
    \/ \E i \in PatchItems, causer \in { "SOLVER", "USER" } : Select(i, causer)
    \/ \E i \in PatchItems : Taboo(i)
    \/ \E kind \in PatchSymbols : ResolvableCountPatches(kind)
    \/ \E kind \in PatchSymbols : ResolvablePreselectPatches(kind)
    \/ \E name \in { "", "t" }, force \in BOOLEAN :
          ResolvableNeutral(name, "patch", force)
    \/ \E name \in { "", "t" } : ResolvableSetSoftLock(name, "patch")

SpecPatches == Init /\ [][NextPatches]_vars

\* C31: for every valid patch kind ResolvableCountPatches returns the
\* number ResolvablePreselectPatches returns when called in that same
\* state, and counting changes no item status
C31_CountEqualsPreselect ==
    [][ ( Builtin(ev', "ResolvableCountPatches") /\ ev'.arg[1] \in PatchKinds ) =>
          /\ pool' = pool
          /\ ev'.ret = SetPatches(ev'.arg[1], TRUE).ret ]_vars

(***************************************************************************)
(* The content of the redirect map                                         *)
(***************************************************************************)

RECURSIVE LastProbeOp(_, _)
\* the member of the last journal entry about the probe of url, "none"
\* when there is none
LastProbeOp(log, url) ==
    IF log = << >> THEN "none"
    ELSE IF log[Len(log)].arg[1] = url THEN log[Len(log)].op
    ELSE LastProbeOp(SubSeq(log, 1, Len(log) - 1), url)

\* the probe of url was started and has not finished
OpenProbe(url) == LastProbeOp(journal, url) = "start"

NextProbe ==
    \/ setYCPCallback("MediaChange", "h1") /\ UNCHANGED journal
    \/ \E url \in Urls :
          /\ Len(journal) < MaxJournal
          /\ ProbeSourceReceive_start(url)
          /\ journal' = Append(journal, ev')
    \/ \E url \in Urls, error \in { "NO_ERROR", "NOT_FOUND" } :
          /\ OpenProbe(url)
          /\ Len(journal) < MaxJournal
          /\ ProbeSourceReceive_finish(url, error)
          /\ journal' = Append(journal, ev')
    \/ /\ \A url \in Urls : ~ OpenProbe(url)
       /\ SetSilentProbing("MEDIA_CHANGE_OPTIONALFILE")
    \/ \E error \in { "NOT_FOUND", "IO" } : requestMedia(UrlA, 1, error, 0)

SpecProbe == Init /\ [][NextProbe]_vars

ProbeEvent(e, op) == e.rcv = "ProbeSource" /\ e.op = op

\* the request was answered ABORT without asking the handler
SilentAbort(e) == e.ret.action = "ABORT" /\ e.calls = << >>

\* C33 as stated: a probe sets silent probing to DISABLE at its start and
\* to FULL at its finish, and every media change request between the start
\* and the finish of a probe returns ABORT
C33_AbortWhileProbeOpen ==
    /\ ProbeEvent(ev, "start") => _silent_probing = "MEDIA_CHANGE_DISABLE"
    /\ ProbeEvent(ev, "finish") => _silent_probing = "MEDIA_CHANGE_FULL"
    /\ ( MediaEvent(ev) /\ \E url \in Urls : OpenProbe(url) ) => SilentAbort(ev)

\* C33: a probe sets silent probing to DISABLE at its start and to FULL at
\* its finish, whatever the mode was and whatever probes are open; every
\* media change request between the start of a probe and the next finish
\* of any probe returns ABORT, and with the mode FULL after a finish a
\* request reaches the registered handler though another probe is open
C33_AbortUntilNextFinish ==
    /\ ProbeEvent(ev, "start") => _silent_probing = "MEDIA_CHANGE_DISABLE"
    /\ ProbeEvent(ev, "finish") => _silent_probing = "MEDIA_CHANGE_FULL"
    /\ ( MediaEvent(ev) /\ journal # << >> ) =>
          IF journal[Len(journal)].op = "start"
          THEN SilentAbort(ev)
          ELSE ( \E url \in Urls : OpenProbe(url) ) =>
                  /\ _silent_probing = "MEDIA_CHANGE_FULL"
                  /\ IsSet("MediaChange") => ev.calls # << >>

\* the probe of UrlB was started while the probe of UrlA was open and has
\* finished; a request made before the probe of UrlA finishes has reached
\* the handler
C33_Witness ==
    /\ MediaEvent(ev)
    /\ OpenProbe(UrlA)
    /\ LastProbeOp(journal, UrlB) = "finish"
    /\ ev.calls # << >>

(***************************************************************************)
(* The last reported source and the registration of the SourceChange       *)
(* handler: the host registers the handler at any time, also while a       *)
(* commit runs                                                             *)
(***************************************************************************)

NextReported ==
    \/ setYCPCallback("SourceChange", "h1") /\ UNCHANGED journal
    \/ PkgCommit_call(0) /\ UNCHANGED feed
    \/ PkgCommit_return(CleanResult, FsFine) /\ UNCHANGED feed
    \/ \E res \in Packages :
          /\ pc = "commit"
          /\ InstallPkgReceive_start(res)
          /\ UNCHANGED << feed, journal, attempt, pool, pkg >>
    \/ \E res \in Resolvables :
          pc = "commit" /\ DownloadResolvableReceive_start(res)
                        /\ UNCHANGED feed

SpecReported == Init /\ [][NextReported]_vars

\* the SourceChange handler was invoked by the call
ToldSourceChange(e) ==
    \E i \in 1..Len(e.calls) : e.calls[i].kind = "SourceChange"

FileErrors == { "NO_ERROR", "NOT_FOUND", "IO", "ACCESS_DENIED", "ERROR" }

FinishReasons == { "", "timeout" }

\* the error ignored while probing is disabled only
FinishError_DisableOnly(error) ==
    IF _silent_probing = "MEDIA_CHANGE_DISABLE" THEN "NO_ERROR" ELSE error

\* "ignore errors for optional files": the error passed to the handler
FinishError(error) ==
    IF \/ _silent_probing = "MEDIA_CHANGE_DISABLE"
       \/ _silent_probing = "MEDIA_CHANGE_OPTIONALFILE"
    THEN "NO_ERROR"
    ELSE error

\* DownloadProgressReceive::finish
DownloadProgressReceive_finish(file, error, reason) ==
    /\ ev' = Event("DownloadProgress", "finish", << file, error, reason >>,
                   IF IsSet("DoneDownload")
                   THEN << Call("DoneDownload", << FinishError(error), reason >>) >>
                   ELSE << >>,
                   "void")
    /\ UNCHANGED << ycpcb, now, last_reported, last_reported_time, _last,
                    last_reported_repo, last_reported_mediumnr,
                    _silent_probing, redirect_map, starts, source_changes,
                    pc, feed, handler_calls, journal, attempt, pool, pkg >>

\* the host registers the handler, sources are probed, optional files are
\* downloaded, and the engine reports the end of file downloads
NextFinish ==
    \/ setYCPCallback("DoneDownload", "h1") /\ UNCHANGED journal
    \/ ProbeSourceReceive_start(UrlA) /\ UNCHANGED journal
    \/ ProbeSourceReceive_finish(UrlA, "NO_ERROR") /\ UNCHANGED journal
    \/ SetSilentProbing("MEDIA_CHANGE_OPTIONALFILE")
    \/ \E file \in Urls, error \in FileErrors, reason \in FinishReasons :
          DownloadProgressReceive_finish(file, error, reason)

SpecFinish == Init /\ [][NextFinish]_vars

\* C35: the end of a file download passes the error code of the engine to
\* the DoneDownload handler unchanged only while silent probing is FULL;
\* while it is DISABLE or OPTIONALFILE the handler receives NO_ERROR,
\* whatever the error was
C35_ErrorPassedOnlyWhenFull ==
    ( ev.rcv = "DownloadProgress" /\ ev.op = "finish" ) =>
        IF IsSet("DoneDownload")
        THEN /\ Len(ev.calls) = 1
             /\ ev.calls[1].kind = "DoneDownload"
             /\ ev.calls[1].args[1] =
                    IF _silent_probing = "MEDIA_CHANGE_FULL"
                    THEN ev.arg[2] ELSE "NO_ERROR"
        ELSE ev.calls = << >>

\* an optional file has failed with an I/O error and the handler was told
\* there was no error
C35_Witness ==
    /\ ev.rcv = "DownloadProgress" /\ ev.op = "finish"
    /\ _silent_probing = "MEDIA_CHANGE_OPTIONALFILE"
    /\ ev.arg[2] = "IO"
    /\ ev.calls # << >>
    /\ ev.calls[1].args[1] = "NO_ERROR"

(***************************************************************************)
(* The eject of a device                                                   *)
(***************************************************************************)

\* the handler's reply has more than one character and starts with E
EjectDevice(e) ==
    /\ MediaEvent(e)
    /\ e.calls # << >>
    /\ Len(e.calls[1].reply) > 1
    /\ e.calls[1].reply[1] = "E"

\* C36: a reply of the MediaChange handler that has more than one character
\* and starts with E is decoded as EJECT, with the current device set to
\* the number read from the rest of the reply, 0 when that is no number; it
\* is never taken as a URL and the redirect map stays as it is
C36_EjectNeverRedirects ==
    [][ EjectDevice(ev') =>
          /\ ev'.ret.action = "EJECT"
          /\ ev'.ret.dev_current = strtonum(Tail(ev'.calls[1].reply))
          /\ ev'.calls[1].reply = << "E", ":", "a" >> => ev'.ret.dev_current = 0
          /\ ev'.calls[1].reply = << "E", "2", "x" >> => ev'.ret.dev_current = 2
          /\ ev'.ret.url = ev'.arg[1]
          /\ redirect_map' = redirect_map ]_vars

\* the reply E:a, which reads as a URL, has ejected device 0 and left the
\* redirect on record alone
C36_Witness ==
    /\ EjectDevice(ev)
    /\ ev.calls[1].reply = << "E", ":", "a" >>
    /\ IsValidUrl(ev.calls[1].reply)
    /\ ev.ret.action = "EJECT"
    /\ ev.ret.dev_current = 0
    /\ redirect_map # EmptyMap

(***************************************************************************)
(* Specification of the remembered resolvable: the host registers the      *)
(* handlers of a package installation and of a change of the source, the   *)
(* engine runs installation attempts                                        *)
(***************************************************************************)

NextRemember ==
    \/ attempt.phase = "none" /\ setYCPCallback("SourceChange", "h1")
          /\ UNCHANGED journal
    \/ NextInstall

SpecRemember == Init /\ [][NextRemember]_vars

\* a start event of the install receiver
InstallStart(e) == e.rcv = "InstallPkg" /\ e.op = "start"

\* a problem event of the install receiver at the forced level
ForcedProblem(e) ==
    /\ e.rcv = "InstallPkg"
    /\ e.op = "problem"
    /\ e.arg[3] = "RPM_NODEPS_FORCE"

\* the handlers a start event has invoked
InvokedKinds(e) == { e.calls[i].kind : i \in 1 .. Len(e.calls) }

\* C37: the install receiver remembers the resolvable of the last start; a
\* start of the remembered resolvable invokes no handler and only resets
\* the throttle state, a start of any other resolvable invokes StartPackage
\* when it is registered; the remembered resolvable changes only by a start
\* and by a problem at the forced level, which clears it
C37_StartPackageOncePerRemembered ==
    [][ /\ InstallStart(ev') =>
              /\ _last' = ev'.arg[1]
              /\ last_reported'["InstallPkg"] = 0
              /\ last_reported_time'["InstallPkg"] = now
              /\ _last = ev'.arg[1] => ev'.calls = << >>
              /\ "StartPackage" \in InvokedKinds(ev') => _last # ev'.arg[1]
              /\ _last # ev'.arg[1] /\ IsSet("StartPackage") =>
                     "StartPackage" \in InvokedKinds(ev')
        /\ ForcedProblem(ev') => _last' = NullRes
        /\ _last' # _last => InstallStart(ev') \/ ForcedProblem(ev') ]_vars

\* the start of the second attempt of a package, after the first one was
\* given up, has invoked no handler although both are registered and the
\* package comes from a source that was not reported
C37_Witness ==
    /\ InstallStart(ev)
    /\ attempt.phase = "started"
    /\ attempt.level = "RPM_NODEPS"
    /\ IsSet("StartPackage")
    /\ IsSet("SourceChange")
    /\ ev.calls = << >>
    /\ _last = ev.arg[1]

(***************************************************************************)
(* The flag of the saved state                                             *)
(***************************************************************************)

\* C38: the flag of the saved state is false at first and only SaveState
\* changes it, to true: no operation, ClearSaveState and RestoreState
\* included, sets it back; SaveState always returns true and replaces the
\* one saved snapshot by the status of the pool
C38_SavedFlagMonotone ==
    /\ ~ pkg.state_saved
    /\ [][ /\ pkg.state_saved => pkg'.state_saved
           /\ pkg'.state_saved # pkg.state_saved => ev'.op = "SaveState"
           /\ pkg'.saved # pkg.saved => ev'.op = "SaveState"
           /\ ev'.op = "SaveState" =>
                  /\ ev'.ret = TRUE
                  /\ pkg'.state_saved
                  /\ pkg'.saved = pool
                  /\ pool' = pool ]_vars

\* ClearSaveState has returned true after a second SaveState replaced the
\* snapshot: the flag is still set and the snapshot is the one of the
\* second call
C38_Witness ==
    /\ ev.op = "ClearSaveState"
    /\ ev.ret = TRUE
    /\ pkg.state_saved
    /\ pkg.saved = pool
    /\ \E i \in PoolItems : pool[i] # Neutral

(***************************************************************************)
(* ResolvableNeutral and ResolvableSetSoftLock over several items          *)
(***************************************************************************)

\* a call of one of the two builtins with a kind they know
LoopBuiltin(e) ==
    /\ Builtin(e, "ResolvableNeutral") \/ Builtin(e, "ResolvableSetSoftLock")
    /\ e.arg[2] \in NeutralKinds

\* the transitions the call attempts on an item of the status st, in order
Attempts(e, st) ==
    IF e.op = "ResolvableSetSoftLock"
    THEN << setSoftLock(st, whoWantsIt) >>
    ELSE LET first == resetTransact(st, whoWantsIt)
         IN  IF e.arg[3]
             THEN << first, resetTransact(first.status, "USER") >>
             ELSE << first >>

\* C39: ResolvableNeutral and ResolvableSetSoftLock attempt the transition
\* on every item that matches the name and the kind, whatever became of the
\* items before it, and leave the other items alone; they return true
\* exactly when every attempted transition succeeded
C39_EveryMatchAttempted ==
    [][ LoopBuiltin(ev') =>
          LET M == Matching(ev'.arg[1], ev'.arg[2])
              tries(i) == Attempts(ev', pool[i])
          IN  /\ \A i \in M : pool'[i] = tries(i)[Len(tries(i))].status
              /\ \A i \in PoolItems \ M : pool'[i] = pool[i]
              /\ ev'.ret = ( \A i \in M :
                               \A k \in 1 .. Len(tries(i)) : tries(i)[k].ret )
        ]_vars

\* ResolvableSetSoftLock of every patch has returned false for the patch
\* the user has selected, and the three other patches are soft-locked,
\* the one before it and the ones after it
C39_Witness ==
    /\ Builtin(ev, "ResolvableSetSoftLock")
    /\ ev.arg = << "", "patch" >>
    /\ ev.ret = FALSE
    /\ pool["u"] = [ transact |-> "TRANSACT", by |-> "USER" ]
    /\ \A i \in { "t", "v", "w" } :
          pool[i] = [ transact |-> "KEEP_STATE", by |-> whoWantsIt ]

====
